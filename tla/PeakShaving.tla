------------------------------ MODULE PeakShaving ------------------------------
(***************************************************************************)
(* The peak-shaving engine of apps/server/src/automation: the tick state   *)
(* machine that borrows up to four inverter registers, keeps the user's    *)
(* value of each in a persisted slot, and hands every register back.       *)
(*                                                                         *)
(* JavaScript runs one step at a time, so a step of this module is the     *)
(* code between two awaits.  Between steps anything else may happen: a     *)
(* poll, a user edit, a settings PUT, the loop timer, or a crash.          *)
(*                                                                         *)
(* The decision mathematics is abstracted to the commands it may return;   *)
(* the EVCC half of a tick (module EvPullIn) is one step that succeeds or  *)
(* throws; status fields that only report are left out.                    *)
(***************************************************************************)
EXTENDS Naturals

CONSTANTS
  Values,       \* register values; UserValues and Commands draw from it
  UserValues,   \* what the user may set a register to
  Commands,     \* what a decision may command
  Configs,      \* the automation settings a PUT may save
  Edited,       \* the registers the user changes in a behaviour
  BoundSets,    \* the role bindings a boot may find: sets of registers
  Readbacks,    \* the sets of registers one sample may report
  LostCommits,  \* TRUE: a state save that throws may have committed
  MaxRestarts   \* bound on crashes

Registers == {"charge", "sell", "gridOn", "gridA"}

ASSUME ConstantsAssumption ==
  /\ Values \subseteq Nat \ {0}
  /\ UserValues \subseteq Values /\ UserValues # {}
  /\ Commands \subseteq Values
  /\ Configs # {} /\ Configs \subseteq {"off", "shadow", "export", "friendly"}
  /\ Edited \subseteq Registers
  /\ BoundSets \subseteq SUBSET Registers /\ BoundSets # {}
  /\ Readbacks \subseteq SUBSET Registers
  /\ LostCommits \in BOOLEAN
  /\ MaxRestarts \in Nat

(***************************************************************************)
(* What a register, a slot or a reading holds: a value and, as history,    *)
(* who put it there.  "engine" marks a steering command; everything handed *)
(* back or edited is the user's.  Empty is an absent slot or reading.      *)
(***************************************************************************)
Content == [val : Values, by : {"user", "engine"}]
Empty == [val |-> 0, by |-> "none"]
Slot == Content \cup {Empty}
Blank == [r \in Registers |-> Empty]

Runs == {"none", "release", "again", "shadow", "export", "friendly"}
Live == {"export", "friendly"}

Stages == {"idle", "claim", "decide", "write", "replay", "save", "ev"}
Objects == Registers \cup {"none", "feed", "grid"}

VARIABLES
  reg,       \* the device: what each register holds
  db,        \* app_settings.automationState: the persisted slots
  cache,     \* stateCache of the running process
  loaded,    \* whether stateCache has been read since boot
  bound,     \* the registers whose role the steered device binds
  sample,    \* liveState.latest, register readings only
  fresh,     \* whether that sample is at most STALE_SAMPLE_MS old
  config,    \* the saved automation settings
  applied,   \* history: the settings the last tick read
  applying,  \* PUTs whose hot-apply tick has not been requested yet
  depth,     \* queueDepth: the running tick and the queued one
  stage,     \* the await the running tick is at ...
  on,        \* ... and the register or the pair of slots it is for
  run,       \* which path the running tick took
  live,      \* the readings the running tick captured
  restored,  \* slots the current release has put back and not yet dropped
  restarts   \* crashes so far

store == <<db, cache, loaded>>
polled == <<sample, fresh>>
settings == <<config, applied, applying>>
tick == <<depth, stage, on, run, live, restored>>
boot == <<bound, restarts>>
vars == <<reg, db, cache, loaded, bound, sample, fresh, config,
          applied, applying, depth, stage, on, run, live, restored, restarts>>

TypeOK ==
  /\ reg \in [Registers -> Content]
  /\ db \in [Registers -> Slot]
  /\ cache \in [Registers -> Slot]
  /\ loaded \in BOOLEAN
  /\ bound \in SUBSET Registers
  /\ sample \in [Registers -> Slot]
  /\ fresh \in BOOLEAN
  /\ config \in Configs
  /\ applied \in Configs
  /\ applying \in BOOLEAN
  /\ depth \in 0..2
  /\ stage \in Stages
  /\ on \in Objects
  /\ run \in Runs
  /\ live \in [Registers -> Slot]
  /\ restored \in SUBSET Registers
  /\ restarts \in 0..MaxRestarts

Init ==
  /\ \E v \in UserValues : reg = [r \in Registers |-> [val |-> v, by |-> "user"]]
  /\ db = Blank /\ cache = Blank /\ loaded = FALSE
  /\ bound \in BoundSets
  /\ sample = Blank /\ fresh = FALSE
  /\ config \in Configs /\ applied = config /\ applying = FALSE
  /\ depth = 1 /\ stage = "idle" /\ on = "none" /\ run = "none" /\ live = Blank
  /\ restored = {} /\ restarts = 0

-----------------------------------------------------------------------------
(* The surroundings: the user, the poll loop, the clock, a crash.          *)

\* Anything that is not the engine sets a register: Controls, Home Assistant, the panel.
UserEdit(r) ==
  /\ r \in Edited
  /\ \E v \in UserValues : reg' = [reg EXCEPT ![r] = [val |-> v, by |-> "user"]]
  /\ UNCHANGED <<store, polled, settings, tick, boot>>

(***************************************************************************)
(* pollOnce publishes what it read.  Reading and publishing are one step:  *)
(* a read that is published late shows a tick older readings, which is     *)
(* what the tick sees when the poll comes late instead.  A poll that fails *)
(* publishes nothing.                                                      *)
(***************************************************************************)
PollOnce ==
  /\ \E seen \in Readbacks :
       sample' = [r \in Registers |-> IF r \in seen THEN reg[r] ELSE Empty]
  /\ fresh' = TRUE
  /\ UNCHANGED <<reg, store, settings, tick, boot>>

\* The sample passes STALE_SAMPLE_MS; nobody looks at its readings again.
SampleAges ==
  /\ fresh
  /\ fresh' = FALSE /\ sample' = Blank
  /\ UNCHANGED <<reg, store, settings, tick, boot>>

\* The process dies and boots again: memory is lost, startAutomations ticks once.
Restart ==
  /\ restarts < MaxRestarts
  /\ restarts' = restarts + 1
  /\ bound' \in BoundSets
  /\ cache' = Blank /\ loaded' = FALSE
  /\ sample' = Blank /\ fresh' = FALSE
  /\ applying' = FALSE
  /\ depth' = 1 /\ stage' = "idle" /\ on' = "none" /\ run' = "none" /\ live' = Blank
  /\ restored' = {}
  /\ UNCHANGED <<reg, db, config, applied>>

-----------------------------------------------------------------------------
(* Requesting ticks.                                                       *)

\* Mutation: a plain reentrancy guard, so a hot-apply during a tick is swallowed.
RequestedGuard == IF depth >= 1 THEN depth ELSE depth + 1

\* tick(): one running and one queued at most; a third request joins the queued one.
Requested == IF depth >= 2 THEN depth ELSE depth + 1

\* PUT /api/automations saves the settings ...
PutConfig ==
  /\ ~applying
  /\ \E c \in Configs \ {config} : config' = c
  /\ applying' = TRUE
  /\ UNCHANGED <<reg, store, polled, applied, tick, boot>>

\* ... then asks for a tick (applyAutomationConfig).
ApplyConfig ==
  /\ applying
  /\ applying' = FALSE
  /\ depth' = Requested
  /\ UNCHANGED <<reg, store, polled, config, applied, stage, on, run, live, restored, boot>>

\* The loop timer fires (scheduleNext).
TimerFires ==
  /\ depth < 2
  /\ depth' = Requested
  /\ UNCHANGED <<reg, store, polled, settings, stage, on, run, live, restored, boot>>

-----------------------------------------------------------------------------
(* One tick.                                                               *)

\* The tick is over, whether it ran to its end or threw into runTick's catch.
Finished ==
  /\ depth' = depth - 1
  /\ stage' = "idle" /\ on' = "none" /\ run' = "none" /\ live' = Blank

\* A throw ends the tick and whatever release it was in the middle of.
Thrown == Finished /\ restored' = {}

\* Grid charging is only steered when both of its registers are bound.
GridBound == {"gridOn", "gridA"} \subseteq bound

\* The running tick awaits op for x.
At(op, x) == stage = op /\ on = x

\* The tick is about to look at a slot, or to drop the slots a release put back.
Claiming == \E r \in Registers : At("claim", r)
Replaying == \E r \in Registers : At("replay", r)
Saving == At("save", "feed") \/ At("save", "grid")

\* The running tick goes on with op for x.
MoveTo(op, x) == stage' = op /\ on' = x /\ UNCHANGED <<depth, run, live>>

\* After the feed-in stage of a live run: the decision opens a window or not.
GridStage ==
  \/ MoveTo("replay", "gridOn")
  \/ GridBound /\ MoveTo("claim", "gridOn")
  \/ ~GridBound /\ MoveTo("ev", "none")

\* Where a tick goes next, in the order steer, release and the hand-backs await.
Proceed ==
  \/ At("claim", "charge") /\ MoveTo("decide", "none")
  \/ At("decide", "none") /\ run = "shadow" /\ MoveTo("ev", "none")
  \/ At("decide", "none") /\ run # "shadow" /\ MoveTo("write", "charge")
  \* the feed-in ceiling
  \/ At("write", "charge") /\ run = "export" /\ MoveTo("replay", "sell")
  \/ At("write", "charge") /\ run # "export" /\ "sell" \in bound /\ MoveTo("claim", "sell")
  \/ At("claim", "sell") /\ MoveTo("write", "sell")
  \/ At("write", "sell") /\ GridStage
  \* a release of the charge and feed-in ceilings
  \/ At("replay", "charge") /\ MoveTo("replay", "sell")
  \/ At("replay", "sell") /\ MoveTo("save", "feed")
  \/ At("save", "feed") /\ run \in Live /\ GridStage
  \/ At("save", "feed") /\ run = "shadow" /\ MoveTo("decide", "none")
  \/ At("save", "feed") /\ run \in {"release", "again"} /\ MoveTo("ev", "none")
  \* grid charging: claimed and commanded, or handed back
  \/ At("claim", "gridOn") /\ MoveTo("claim", "gridA")
  \/ At("claim", "gridA") /\ MoveTo("write", "gridA")
  \/ At("write", "gridA") /\ MoveTo("write", "gridOn")
  \/ At("write", "gridOn") /\ MoveTo("ev", "none")
  \/ At("replay", "gridOn") /\ MoveTo("replay", "gridA")
  \/ At("replay", "gridA") /\ MoveTo("save", "grid")
  \/ At("save", "grid") /\ run \in Live /\ MoveTo("ev", "none")
  \/ /\ At("save", "grid") /\ run = "again"
     /\ stage' = "replay" /\ on' = "charge" /\ run' = "release" /\ UNCHANGED <<depth, live>>
  \/ At("save", "grid") /\ run \in {"release", "shadow"} /\ Finished
  \* the EVCC half: last in a live run, before grid charging in a release
  \/ At("ev", "none") /\ run \in Live /\ Finished
  \/ At("ev", "none") /\ run \notin Live /\ MoveTo("replay", "gridOn")

\* Mutation: a missing readback is no reason to hold.
HoldNothing(r) == Proceed

\* No readback to snapshot: the charge claim ends the tick, the others end their own stage.
HoldWithoutReadback(r) ==
  \/ r = "charge" /\ Finished
  \/ r = "sell" /\ GridStage
  \/ r \in {"gridOn", "gridA"} /\ MoveTo("ev", "none")

\* Mutation: a stale sample holds everything, a disabled run included.
PathHoldsWhenStale(c, blocked, night) ==
  IF ~fresh THEN "none"
  ELSE IF blocked \/ night THEN "release" ELSE IF c = "off" THEN "shadow" ELSE c

\* The path a tick takes once its settings and the plant's readings are known.
PathOf(c, blocked, night) ==
  IF c = "off"
    THEN IF blocked \/ ~fresh THEN "release" ELSE IF night THEN "again" ELSE "shadow"
    ELSE IF blocked \/ (fresh /\ night) THEN "release" ELSE IF fresh THEN c ELSE "none"

(***************************************************************************)
(* Roles a run cannot do without (resolvePeakShavingBlockers); the other   *)
(* blockers are a choice.  A grid-friendly run therefore has its feed-in   *)
(* register, and steerSellLimit's early return for a missing one is dead.  *)
(***************************************************************************)
MustBlock(c) == "charge" \notin bound \/ (c = "friendly" /\ "sell" \notin bound)

\* runTick up to its first write: read the settings, capture the readings, pick the path.
StartTick ==
  /\ stage = "idle" /\ depth > 0
  /\ applied' = config
  /\ \E blocked \in {b \in BOOLEAN : MustBlock(config) => b}, night \in BOOLEAN :
       LET path == PathOf(config, blocked, night) IN
       IF path = "none"
         THEN depth' = depth - 1 /\ UNCHANGED <<stage, on, run, live>>
         ELSE /\ run' = path
              /\ stage' = (IF path \in Live THEN "claim" ELSE "replay") /\ on' = "charge"
              /\ live' = IF path \in Live THEN sample ELSE Blank
              /\ UNCHANGED depth
  /\ UNCHANGED <<reg, store, polled, config, applying, restored, boot>>

\* A settings, weather, forecast or price read throws before anything was decided.
StartThrows ==
  /\ stage = "idle" /\ depth > 0
  /\ depth' = depth - 1
  /\ applied' = config
  /\ UNCHANGED <<reg, store, polled, config, applying, stage, on, run, live, restored, boot>>

\* Mutation: a boot starts from empty slots and forgets the persisted ones.
LoadNothing ==
  /\ (Claiming \/ Replaying) /\ ~loaded
  /\ loaded' = TRUE /\ UNCHANGED cache
  /\ UNCHANGED <<reg, db, polled, settings, tick, boot>>

\* The first loadState of this process reads the persisted slots.
LoadState ==
  /\ (Claiming \/ Replaying) /\ ~loaded
  /\ loaded' = TRUE /\ cache' = db
  /\ UNCHANGED <<reg, db, polled, settings, tick, boot>>

\* Mutation: the slots are kept in memory only.
SaveInMemory(next) ==
  /\ cache' = next
  /\ UNCHANGED <<db, loaded>>

\* saveState(next): the settings row first, the cache once that succeeded.
SaveState(next) ==
  /\ db' = next /\ cache' = next
  /\ UNCHANGED loaded

\* saveState(next) throws; under LostCommits the row may have been written all the same.
SaveThrows(next) ==
  /\ db' \in IF LostCommits THEN {db, next} ELSE {db}
  /\ Thrown
  /\ UNCHANGED <<cache, loaded>>

\* ensureSnapshot: record the readback unless a slot is held already.
Claim(r) ==
  /\ At("claim", r) /\ loaded
  /\ \/ /\ cache[r] # Empty
        /\ Proceed
        /\ UNCHANGED <<store, restored>>
     \/ /\ cache[r] = Empty /\ live[r] = Empty
        /\ HoldWithoutReadback(r)
        /\ UNCHANGED <<store, restored>>
     \/ /\ cache[r] = Empty /\ live[r] # Empty
        /\ SaveState([cache EXCEPT ![r] = live[r]])
        /\ Proceed /\ UNCHANGED restored
  /\ UNCHANGED <<reg, polled, settings, boot>>

\* The save of a new snapshot throws: the tick ends before anything is written.
ClaimThrows(r) ==
  /\ At("claim", r) /\ loaded
  /\ cache[r] = Empty /\ live[r] # Empty
  /\ SaveThrows([cache EXCEPT ![r] = live[r]])
  /\ UNCHANGED <<reg, polled, settings, boot>>

\* The decision itself: pure, but its battery, tariff and load reads may throw.
Decide ==
  /\ At("decide", "none")
  /\ Proceed /\ UNCHANGED restored
  /\ UNCHANGED <<reg, store, polled, settings, boot>>

\* writeRegister: nothing when the captured reading is the command already, else a write.
Write(r) ==
  /\ At("write", r)
  /\ \E command \in Commands :
       \/ /\ live[r].val = command
          /\ Proceed /\ UNCHANGED <<reg, restored>>
       \/ /\ live[r].val # command
          /\ reg' = [reg EXCEPT ![r] = [val |-> command, by |-> "engine"]]
          /\ Proceed /\ UNCHANGED restored
  /\ UNCHANGED <<store, polled, settings, boot>>

\* The write is refused (WriteRejectedError): recorded, and the tick goes on.
WriteRejected(r) ==
  /\ At("write", r)
  /\ Proceed /\ UNCHANGED restored
  /\ UNCHANGED <<reg, store, polled, settings, boot>>

\* The device fails: the tick ends, and the register may or may not have taken the command.
WriteThrows(r) ==
  /\ At("write", r)
  /\ \E command \in Commands :
       reg' \in {reg, [reg EXCEPT ![r] = [val |-> command, by |-> "engine"]]}
  /\ Thrown
  /\ UNCHANGED <<store, polled, settings, boot>>

\* What a replayed snapshot leaves in the register: the value, now the user's again.
HandedBack(r) == [reg EXCEPT ![r] = [val |-> cache[r].val, by |-> "user"]]

\* replaySnapshot puts the recorded value back.
Replay(r) ==
  /\ At("replay", r) /\ loaded
  /\ cache[r] # Empty /\ r \in bound
  /\ reg' = HandedBack(r)
  /\ restored' = restored \cup {r}
  /\ Proceed
  /\ UNCHANGED <<store, polled, settings, boot>>

\* Nothing to put back: no slot, or its role is no longer bound and the slot is kept.
ReplaySkipped(r) ==
  /\ At("replay", r) /\ loaded
  /\ cache[r] = Empty \/ r \notin bound
  /\ Proceed /\ UNCHANGED restored
  /\ UNCHANGED <<reg, store, polled, settings, boot>>

\* The hand-back is refused or fails: the slot is kept; the register may have taken it.
ReplayFails(r) ==
  /\ At("replay", r) /\ loaded
  /\ cache[r] # Empty /\ r \in bound
  /\ reg' \in {reg, HandedBack(r)}
  /\ Proceed /\ UNCHANGED restored
  /\ UNCHANGED <<store, polled, settings, boot>>

\* The slots that were put back are dropped in one save.
Dropped == [r \in Registers |-> IF r \in restored THEN Empty ELSE cache[r]]

\* End of restoreSnapshot, releaseSellLimit or releaseGridCharge.
DropRestored ==
  /\ Saving
  /\ restored # {}
  /\ SaveState(Dropped) /\ restored' = {}
  /\ Proceed
  /\ UNCHANGED <<reg, polled, settings, boot>>

\* Nothing was put back, so nothing is saved.
NothingRestored ==
  /\ Saving
  /\ restored = {}
  /\ Proceed /\ UNCHANGED restored
  /\ UNCHANGED <<reg, store, polled, settings, boot>>

\* The save after a release throws: the slots stay and the next release retries.
DropThrows ==
  /\ Saving
  /\ restored # {}
  /\ SaveThrows(Dropped)
  /\ UNCHANGED <<reg, polled, settings, boot>>

\* applyEvPullIn / releaseEvPullIn, on its own slots of the same row (module EvPullIn).
EvStep ==
  /\ At("ev", "none")
  /\ Proceed /\ UNCHANGED restored
  /\ UNCHANGED <<reg, store, polled, settings, boot>>

\* One of the awaits of the decision or of the EVCC half throws into runTick's catch.
TickThrows ==
  /\ At("decide", "none") \/ At("ev", "none")
  /\ Thrown
  /\ UNCHANGED <<reg, store, polled, settings, boot>>

\* The first read of the persisted slots throws.
LoadThrows ==
  /\ (Claiming \/ Replaying) /\ ~loaded
  /\ Thrown
  /\ UNCHANGED <<reg, store, polled, settings, boot>>
-----------------------------------------------------------------------------
TickStep ==
  \/ StartTick \/ LoadState \/ Decide \/ DropRestored \/ NothingRestored \/ EvStep
  \/ \E r \in Registers : Claim(r) \/ Write(r) \/ Replay(r) \/ ReplaySkipped(r)

TickFault ==
  \/ StartThrows \/ LoadThrows \/ DropThrows \/ TickThrows
  \/ \E r \in Registers : ClaimThrows(r) \/ WriteRejected(r) \/ WriteThrows(r) \/ ReplayFails(r)

Surroundings ==
  \/ \E r \in Registers : UserEdit(r)
  \/ PollOnce \/ SampleAges
  \/ PutConfig \/ ApplyConfig \/ TimerFires
  \/ Restart

Next == TickStep \/ TickFault \/ Surroundings

Spec == Init /\ [][Next]_vars

(***************************************************************************)
(* Fairness.  The loop re-arms its timer whatever a tick did, the queue    *)
(* starts the next tick when the running one ends, and an await settles.   *)
(* Reads, saves and register writes may fail any number of times but not   *)
(* forever: that is the meaning of "retried until it succeeds".            *)
(***************************************************************************)
Fairness ==
  /\ WF_vars(TimerFires)
  /\ WF_vars(TickStep)
  /\ SF_vars(StartTick) /\ SF_vars(LoadState) /\ SF_vars(Decide)
  /\ SF_vars(DropRestored) /\ SF_vars(EvStep)
  /\ \A r \in UNION BoundSets : SF_vars(Replay(r))

FairSpec == Spec /\ Fairness

-----------------------------------------------------------------------------
(***************************************************************************)
(* A register that holds a steering command has its slot in the database,  *)
(* in every state: between the awaits of a tick, after a failed write or   *)
(* save, and after a crash.  ensureSnapshot persists before writeRegister  *)
(* runs, and a slot is dropped only after replaySnapshot.                  *)
(***************************************************************************)
SnapshotHeld ==
  \A r \in Registers : reg[r].by = "engine" => db[r] # Empty

(***************************************************************************)
(* The header's rule: "a restart never re-captures the engine's own last   *)
(* write as the user value".  A slot never comes to record a steering      *)
(* command that is still in the register, not even on the first claim      *)
(* after a crash, when the sample shows the engine's own write.            *)
(***************************************************************************)
RestartNeverRecaptures ==
  [][\A r \in Registers :
       (db[r].by # "engine" /\ db'[r].by = "engine") => reg[r].by = "user"]_vars

(***************************************************************************)
(* steerGridCharge: "half-claiming would leave the enable flag on with no  *)
(* record of the current the user had set".  When a steering command       *)
(* reaches either grid-charge register, both slots are in the database.    *)
(***************************************************************************)
GridNeverHalfClaimed ==
  [][(\E r \in {"gridOn", "gridA"} : reg'[r].by = "engine" /\ reg'[r] # reg[r])
       => db["gridOn"] # Empty /\ db["gridA"] # Empty]_vars

(***************************************************************************)
(* createPeakShavingEngine: "a queued run always reads the freshest        *)
(* config".  Settings no tick has read yet are followed by a tick that     *)
(* will: one is queued behind the running tick, or about to be requested.  *)
(***************************************************************************)
LatestConfigWins ==
  applied # config => applying \/ depth > (IF stage = "idle" THEN 0 ELSE 1)

(***************************************************************************)
(* A disabled automation gives everything back: once the settings stay     *)
(* off, every bound register's slot is eventually dropped for good,        *)
(* whatever failed before (runTick, release, replaySnapshot's retry).      *)
(***************************************************************************)
DisableHandsBack ==
  <>[](config = "off") => <>[](\A r \in bound : db[r] = Empty)

(***************************************************************************)
(* The inductive strengthening of SnapshotHeld: the cache agrees with the  *)
(* database, a place that writes a register has its slot, and what a       *)
(* release has put back is the user's until its slots are dropped.         *)
(***************************************************************************)
CacheAgrees == /\ loaded => cache = db
               /\ Saving => loaded
WriteIsRecorded ==
  /\ \A r \in Registers : At("write", r) => db[r] # Empty
  /\ At("decide", "none") /\ run # "shadow" => db["charge"] # Empty
  /\ At("claim", "gridA") => db["gridOn"] # Empty
  /\ At("write", "gridA") => db["gridOn"] # Empty
  /\ At("write", "gridOn") => db["gridA"] # Empty
RestoredIsUsers ==
  /\ \A r \in restored : reg[r].by = "user"
  /\ restored # {} => Replaying \/ Saving
RunningIsCounted == stage # "idle" => depth >= 1

IInv ==
  /\ TypeOK /\ RunningIsCounted
  /\ CacheAgrees /\ WriteIsRecorded /\ RestoredIsUsers
  /\ SnapshotHeld

(***************************************************************************)
(* ensureSnapshot: "Capture the user's value for one register on the       *)
(* release-to-active edge".  No slot ever records a steering command.      *)
(***************************************************************************)
CapturesUserValue ==
  \A r \in Registers : db[r].by # "engine"
=============================================================================
