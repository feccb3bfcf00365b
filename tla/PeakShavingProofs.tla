--------------------------- MODULE PeakShavingProofs ---------------------------
(***************************************************************************)
(* Proofs about PeakShaving for every set of values, settings, bindings    *)
(* and samples, and any number of restarts.                                *)
(***************************************************************************)
EXTENDS PeakShaving, TLAPS

\* The type invariant needs to know that a running tick is counted in depth.
Typed == TypeOK /\ RunningIsCounted

\* A tick at a claim, a hand-back or a save is running.
LEMMA BusyPlaces == Claiming \/ Replaying \/ Saving => stage # "idle"
BY DEF Claiming, Replaying, Saving, At

\* What moving on does to the tick's own variables, whatever the place.
LEMMA ProceedTyped ==
  ASSUME Typed, Proceed
  PROVE  /\ stage' \in Stages /\ on' \in Objects /\ run' \in Runs /\ live' \in [Registers -> Slot]
         /\ depth' \in 0..2 /\ (stage' # "idle" => depth' >= 1)
<1> USE DEF Typed, TypeOK, RunningIsCounted, At, Stages, Objects
<1>1. stage # "idle"
  BY DEF Proceed
<1>2. Blank \in [Registers -> Slot]
  BY DEF Blank, Slot
<1>3. CASE Finished
  <2>1. depth >= 1 /\ depth' = depth - 1 /\ stage' = "idle" /\ on' = "none" /\ live' = Blank /\ run' = "none"
    BY <1>1, <1>3 DEF Finished
  <2>2. depth' \in 0..2
    BY <2>1
  <2>3. QED
    BY <1>2, <2>1, <2>2 DEF Runs
<1>4. CASE /\ stage' \in Stages /\ on' \in Objects /\ run' \in Runs /\ UNCHANGED <<depth, live>>
  BY <1>1, <1>4
<1>5. Finished \/ (stage' \in Stages /\ on' \in Objects /\ run' \in Runs /\ UNCHANGED <<depth, live>>)
  BY DEF Proceed, MoveTo, GridStage, Registers, Runs
<1>6. QED
  BY <1>3, <1>4, <1>5

\* The values the actions store are of the right type.
LEMMA BlankTyped == Blank \in [Registers -> Slot] /\ Content \subseteq Slot /\ Empty \in Slot
BY DEF Blank, Slot

\* A tick that ends, by finishing or by a throw, leaves its variables typed.
LEMMA FinishedTyped ==
  ASSUME Typed, Finished, stage # "idle"
  PROVE  /\ stage' = "idle" /\ on' = "none" /\ stage' \in Stages /\ on' \in Objects /\ run' \in Runs /\ live' \in [Registers -> Slot]
         /\ depth' \in 0..2
<1>1. depth >= 1 /\ depth \in 0..2 /\ depth' = depth - 1
  BY DEF Typed, TypeOK, RunningIsCounted, Finished
<1>2. depth' \in 0..2
  BY <1>1
<1>3. QED
  BY <1>2, BlankTyped DEF Finished, Runs, Stages, Objects

\* The registers' content after a command, an edit or a hand-back.
LEMMA ContentTyped ==
  ASSUME NEW v \in Values, NEW who \in {"user", "engine"}, NEW r \in Registers, Typed
  PROVE  [reg EXCEPT ![r] = [val |-> v, by |-> who]] \in [Registers -> Content]
<1>1. [val |-> v, by |-> who] \in Content
  BY DEF Content
<1>2. QED
  BY <1>1 DEF Typed, TypeOK

\* A replayed snapshot leaves the registers typed (replaySnapshot).
LEMMA HandedBackTyped ==
  ASSUME NEW r \in Registers, cache[r] # Empty, Typed
  PROVE  HandedBack(r) \in [Registers -> Content]
<1>1. cache[r] \in Content
  BY DEF Typed, TypeOK, Slot
<1>2. cache[r].val \in Values
  BY <1>1 DEF Content
<1>3. QED
  BY <1>2, ContentTyped DEF HandedBack

\* Every step keeps the types, and the count of running ticks.
LEMMA TypedStep == Typed /\ [Next]_vars => Typed'
<1> SUFFICES ASSUME Typed, [Next]_vars PROVE Typed'
  OBVIOUS
<1> USE DEF Typed, At, Stages, Objects, store, polled, settings, tick, boot
<1>1. ASSUME NEW r \in Registers, UserEdit(r) PROVE Typed'
  <2>1. PICK v \in UserValues : reg' = [reg EXCEPT ![r] = [val |-> v, by |-> "user"]]
    BY <1>1 DEF UserEdit
  <2>2. reg' \in [Registers -> Content]
    BY <2>1, ContentTyped, ConstantsAssumption
  <2>3. QED
    BY <1>1, <2>2 DEF UserEdit, TypeOK, RunningIsCounted
<1>2. CASE PollOnce
  <2>1. sample' \in [Registers -> Slot]
    BY <1>2, BlankTyped DEF PollOnce, TypeOK
  <2>2. QED
    BY <1>2, <2>1 DEF PollOnce, TypeOK, RunningIsCounted
<1>3. CASE SampleAges
  BY <1>3, BlankTyped DEF SampleAges, TypeOK, RunningIsCounted
<1>4. CASE Restart
  <2>1. restarts' \in 0..MaxRestarts
    BY <1>4, ConstantsAssumption DEF Restart, TypeOK
  <2>2. bound' \in SUBSET Registers
    BY <1>4, ConstantsAssumption DEF Restart
  <2>3. depth' \in 0..2 /\ stage' = "idle" /\ on' = "none" /\ run' \in Runs
    BY <1>4 DEF Restart, Runs
  <2>4. QED
    BY <1>4, <2>1, <2>2, <2>3, BlankTyped DEF Restart, TypeOK, RunningIsCounted
<1>5. CASE PutConfig
  BY <1>5 DEF PutConfig, TypeOK, RunningIsCounted
<1>6. CASE ApplyConfig
  <2>1. depth' \in 0..2 /\ depth' >= depth
    BY <1>6 DEF ApplyConfig, Requested, TypeOK
  <2>2. stage' # "idle" => depth' >= 1
    BY <1>6, <2>1 DEF ApplyConfig, TypeOK, RunningIsCounted
  <2>3. QED
    BY <1>6, <2>1, <2>2 DEF ApplyConfig, TypeOK, RunningIsCounted
<1>7. CASE TimerFires
  <2>1. depth' \in 0..2 /\ depth' >= depth
    BY <1>7 DEF TimerFires, Requested, TypeOK
  <2>2. stage' # "idle" => depth' >= 1
    BY <1>7, <2>1 DEF TimerFires, TypeOK, RunningIsCounted
  <2>3. QED
    BY <1>7, <2>1, <2>2 DEF TimerFires, TypeOK, RunningIsCounted
<1>8. CASE StartTick
  <2>1. PICK blocked \in BOOLEAN, night \in BOOLEAN :
          LET path == PathOf(config, blocked, night) IN
          IF path = "none"
            THEN depth' = depth - 1 /\ UNCHANGED <<stage, on, run, live>>
            ELSE /\ run' = path
                 /\ stage' = (IF path \in Live THEN "claim" ELSE "replay") /\ on' = "charge"
                 /\ live' = IF path \in Live THEN sample ELSE Blank
                 /\ UNCHANGED depth
    BY <1>8 DEF StartTick
  <2>2. PathOf(config, blocked, night) \in Runs
    BY ConstantsAssumption DEF PathOf, Runs, TypeOK
  <2>3. depth > 0 /\ stage = "idle"
    BY <1>8 DEF StartTick
  <2>4. depth' \in 0..2 /\ (stage' # "idle" => depth' >= 1)
    BY <2>1, <2>3 DEF TypeOK
  <2>5. stage' \in Stages /\ on' \in Objects /\ run' \in Runs /\ live' \in [Registers -> Slot]
    BY <2>1, <2>2, BlankTyped DEF TypeOK, Registers
  <2>6. QED
    BY <1>8, <2>4, <2>5 DEF StartTick, TypeOK, RunningIsCounted
<1>9. CASE StartThrows
  BY <1>9 DEF StartThrows, TypeOK, RunningIsCounted
<1>10. CASE LoadState
  BY <1>10 DEF LoadState, TypeOK, RunningIsCounted
<1>11. CASE LoadThrows
  <2>1. stage # "idle"
    BY <1>11, BusyPlaces DEF LoadThrows
  <2>2. QED
    BY <1>11, <2>1, FinishedTyped DEF LoadThrows, Thrown, TypeOK, RunningIsCounted
<1>12. ASSUME NEW r \in Registers, Claim(r) \/ ClaimThrows(r) PROVE Typed'
  <2>1. stage # "idle" /\ reg' = reg
    BY <1>12 DEF Claim, ClaimThrows
  <2>2. [cache EXCEPT ![r] = live[r]] \in [Registers -> Slot]
    BY DEF TypeOK
  <2>3. db' \in [Registers -> Slot] /\ cache' \in [Registers -> Slot] /\ loaded' = loaded
    BY <1>12, <2>2 DEF Claim, ClaimThrows, SaveState, SaveThrows, TypeOK
  <2>4. restored' \in SUBSET Registers
    BY <1>12 DEF Claim, ClaimThrows, SaveThrows, Thrown, TypeOK
  <2>5. Proceed \/ HoldWithoutReadback(r) \/ Finished
    BY <1>12 DEF Claim, ClaimThrows, SaveThrows, Thrown
  <2>6. /\ stage' \in Stages /\ on' \in Objects /\ run' \in Runs
        /\ live' \in [Registers -> Slot]
        /\ depth' \in 0..2 /\ (stage' # "idle" => depth' >= 1)
    <3>1. CASE Proceed
      BY <3>1, ProceedTyped
    <3>2. CASE Finished
      BY <2>1, <3>2, FinishedTyped
    <3>3. CASE HoldWithoutReadback(r) /\ ~Finished
      BY <2>1, <3>3
      DEF HoldWithoutReadback, GridStage, MoveTo, TypeOK, RunningIsCounted, Registers
    <3>4. QED
      BY <2>5, <3>1, <3>2, <3>3
  <2>7. QED
    BY <1>12, <2>1, <2>3, <2>4, <2>6 DEF Claim, ClaimThrows, TypeOK, RunningIsCounted
<1>13. CASE Decide
  BY <1>13, ProceedTyped DEF Decide, TypeOK, RunningIsCounted
<1>14. ASSUME NEW r \in Registers, Write(r) PROVE Typed'
  <2>1. reg' \in [Registers -> Content]
    <3>1. PICK command \in Commands :
            reg' \in {reg, [reg EXCEPT ![r] = [val |-> command, by |-> "engine"]]}
      BY <1>14 DEF Write
    <3>2. command \in Values
      BY ConstantsAssumption
    <3>3. [reg EXCEPT ![r] = [val |-> command, by |-> "engine"]] \in [Registers -> Content]
      BY <3>2, ContentTyped
    <3>4. QED
      BY <3>1, <3>3 DEF TypeOK
  <2>2. Proceed /\ restored' = restored
    BY <1>14 DEF Write
  <2>3. QED
    BY <1>14, <2>1, <2>2, ProceedTyped DEF Write, TypeOK, RunningIsCounted
<1>15. ASSUME NEW r \in Registers, WriteRejected(r) PROVE Typed'
  BY <1>15, ProceedTyped DEF WriteRejected, TypeOK, RunningIsCounted
<1>16. ASSUME NEW r \in Registers, WriteThrows(r) PROVE Typed'
  <2>1. reg' \in [Registers -> Content]
    <3>1. PICK command \in Commands :
            reg' \in {reg, [reg EXCEPT ![r] = [val |-> command, by |-> "engine"]]}
      BY <1>16 DEF WriteThrows
    <3>2. command \in Values
      BY ConstantsAssumption
    <3>3. [reg EXCEPT ![r] = [val |-> command, by |-> "engine"]] \in [Registers -> Content]
      BY <3>2, ContentTyped
    <3>4. QED
      BY <3>1, <3>3 DEF TypeOK
  <2>2. stage # "idle"
    BY <1>16 DEF WriteThrows
  <2>3. QED
    BY <1>16, <2>1, <2>2, FinishedTyped DEF WriteThrows, Thrown, TypeOK, RunningIsCounted
<1>17. ASSUME NEW r \in Registers, Replay(r) PROVE Typed'
  <2>1. reg' \in [Registers -> Content]
    BY <1>17, HandedBackTyped DEF Replay
  <2>2. QED
    BY <1>17, <2>1, ProceedTyped DEF Replay, TypeOK, RunningIsCounted
<1>18. ASSUME NEW r \in Registers, ReplaySkipped(r) PROVE Typed'
  BY <1>18, ProceedTyped DEF ReplaySkipped, TypeOK, RunningIsCounted
<1>19. ASSUME NEW r \in Registers, ReplayFails(r) PROVE Typed'
  <2>1. reg' \in [Registers -> Content]
    BY <1>19, HandedBackTyped DEF ReplayFails, TypeOK
  <2>2. QED
    BY <1>19, <2>1, ProceedTyped DEF ReplayFails, TypeOK, RunningIsCounted
<1>20. Dropped \in [Registers -> Slot]
  BY BlankTyped DEF Dropped, TypeOK
<1>21. CASE DropRestored
  BY <1>20, <1>21, ProceedTyped DEF DropRestored, SaveState, TypeOK, RunningIsCounted
<1>22. CASE NothingRestored
  BY <1>22, ProceedTyped DEF NothingRestored, TypeOK, RunningIsCounted
<1>23. CASE DropThrows
  <2>1. stage # "idle"
    BY <1>23, BusyPlaces DEF DropThrows
  <2>2. db' \in [Registers -> Slot]
    BY <1>20, <1>23 DEF DropThrows, SaveThrows, TypeOK
  <2>3. QED
    BY <1>23, <2>1, <2>2, FinishedTyped
    DEF DropThrows, SaveThrows, Thrown, TypeOK, RunningIsCounted
<1>24. CASE EvStep
  BY <1>24, ProceedTyped DEF EvStep, TypeOK, RunningIsCounted
<1>25. CASE TickThrows
  <2>1. stage # "idle"
    BY <1>25 DEF TickThrows
  <2>2. QED
    BY <1>25, <2>1, FinishedTyped DEF TickThrows, Thrown, TypeOK, RunningIsCounted
<1>26. CASE UNCHANGED vars
  BY <1>26 DEF vars, TypeOK, RunningIsCounted
<1>27. QED
  BY <1>1, <1>2, <1>3, <1>4, <1>5, <1>6, <1>7, <1>8, <1>9, <1>10, <1>11, <1>12, <1>13, <1>14,
     <1>15, <1>16, <1>17, <1>18, <1>19, <1>21, <1>22, <1>23, <1>24, <1>25, <1>26
  DEF Next, TickStep, TickFault, Surroundings

\* The first state is typed.
LEMMA TypedInit == Init => Typed
<1> SUFFICES ASSUME Init PROVE Typed
  OBVIOUS
<1>1. PICK v \in UserValues : reg = [r \in Registers |-> [val |-> v, by |-> "user"]]
  BY DEF Init
<1>2. [val |-> v, by |-> "user"] \in Content
  BY ConstantsAssumption DEF Content
<1>3. reg \in [Registers -> Content]
  BY <1>1, <1>2
<1>4. bound \in SUBSET Registers /\ restarts \in 0..MaxRestarts /\ depth \in 0..2
  BY ConstantsAssumption DEF Init
<1>5. QED
  BY <1>3, <1>4, BlankTyped
  DEF Init, Typed, TypeOK, RunningIsCounted, Runs, Stages, Objects

\* Every state is well typed, and a running tick is counted: the queue never goes negative.
THEOREM TypeCorrect == Spec => []TypeOK
BY TypedInit, TypedStep, PTL DEF Spec, Typed
-----------------------------------------------------------------------------
(***************************************************************************)
(* Moving on keeps every place that writes covered by its slot, as long as *)
(* no slot was dropped and the slot just claimed is there.                 *)
(***************************************************************************)
LEMMA ProceedRecorded ==
  ASSUME Proceed, WriteIsRecorded,
         \A r \in Registers : db[r] # Empty => db'[r] # Empty,
         \A r \in Registers : At("claim", r) => db'[r] # Empty
  PROVE  WriteIsRecorded'
BY DEF WriteIsRecorded, Proceed, MoveTo, GridStage, Finished, Registers, At

\* A release stays a release until its save; a save is only reached from a hand-back.
LEMMA ReleaseGoesOn ==
  ASSUME Proceed
  PROVE  /\ Replaying => Replaying' \/ Saving'
         /\ Saving' => Replaying
BY DEF Proceed, MoveTo, GridStage, Finished, Registers, At, Saving, Replaying

\* From a place of a release no step leads straight to a write that needs a slot.
LEMMA ReleaseRecorded ==
  ASSUME Proceed, Replaying \/ Saving
  PROVE  WriteIsRecorded'
BY DEF WriteIsRecorded, Proceed, MoveTo, GridStage, Finished, Registers, At, Saving, Replaying

\* What is left of IInv beside the types: how slots, registers and the tick relate.
Steered == CacheAgrees /\ WriteIsRecorded /\ RestoredIsUsers /\ SnapshotHeld

\* A step that leaves the registers, the slots and the tick's place alone.
LEMMA QuietStep ==
  ASSUME Steered, UNCHANGED <<reg, db, cache, loaded, stage, on, run, restored>>
  PROVE  Steered'
BY DEF Steered, CacheAgrees, WriteIsRecorded, RestoredIsUsers, SnapshotHeld,
       Saving, Replaying, At

\* A step that moves on and leaves the registers, the slots and the release alone.
LEMMA MovingStep ==
  ASSUME Steered, Proceed, UNCHANGED <<reg, db, cache, loaded, restored>>,
         Replaying \/ Saving => loaded,
         Saving => restored = {},
         ~Claiming
  PROVE  Steered'
<1>1. CacheAgrees'
  BY ReleaseGoesOn DEF Steered, CacheAgrees
<1>2. WriteIsRecorded'
  <2>1. \A r \in Registers : ~At("claim", r)
    BY DEF Claiming
  <2>2. QED
    BY <2>1, ProceedRecorded DEF Steered
<1>3. RestoredIsUsers'
  BY ReleaseGoesOn DEF Steered, RestoredIsUsers
<1>4. SnapshotHeld'
  BY DEF Steered, SnapshotHeld
<1>5. QED
  BY <1>1, <1>2, <1>3, <1>4 DEF Steered

\* A tick that ends keeps the relation when no register was taken meanwhile.
LEMMA EndingStep ==
  ASSUME Steered, Finished, restored' = {}, UNCHANGED <<db, cache, loaded>>, SnapshotHeld'
  PROVE  Steered'
BY DEF Steered, CacheAgrees, WriteIsRecorded, RestoredIsUsers, Finished, Saving, At

\* Every step keeps the slots, the registers and the tick's place in agreement.
LEMMA SteeredStep ==
  ASSUME LostCommits = FALSE, Typed, Steered, [Next]_vars
  PROVE  Steered'
<1> USE DEF store, polled, settings, tick, boot
<1>1. ASSUME NEW r \in Registers, UserEdit(r) PROVE Steered'
  <2>1. PICK v \in UserValues : reg' = [reg EXCEPT ![r] = [val |-> v, by |-> "user"]]
    BY <1>1 DEF UserEdit
  <2>2. \A q \in Registers : reg'[q].by = "user" \/ reg'[q] = reg[q]
    BY <2>1 DEF Typed, TypeOK
  <2>3. SnapshotHeld' /\ RestoredIsUsers'
    BY <1>1, <2>2
    DEF UserEdit, Steered, SnapshotHeld, RestoredIsUsers, Replaying, Saving, At, Typed, TypeOK
  <2>4. CacheAgrees' /\ WriteIsRecorded'
    BY <1>1 DEF UserEdit, Steered, CacheAgrees, WriteIsRecorded, Saving, At
  <2>5. QED
    BY <2>3, <2>4 DEF Steered
<1>2. CASE PollOnce \/ SampleAges \/ PutConfig \/ ApplyConfig \/ TimerFires \/ StartThrows
  BY <1>2, QuietStep DEF PollOnce, SampleAges, PutConfig, ApplyConfig, TimerFires, StartThrows
<1>3. CASE Restart
  BY <1>3 DEF Restart, Steered, CacheAgrees, WriteIsRecorded, RestoredIsUsers, SnapshotHeld,
              Saving, Replaying, At
<1>4. CASE StartTick
  <2>1. /\ stage = "idle" /\ UNCHANGED <<reg, db, cache, loaded, restored>>
        /\ \/ UNCHANGED <<stage, on, run>>
           \/ stage' = "claim" /\ on' = "charge"
           \/ stage' = "replay" /\ on' = "charge"
    BY <1>4 DEF StartTick
  <2>2. QED
    BY <2>1 DEF Steered, CacheAgrees, WriteIsRecorded, RestoredIsUsers, SnapshotHeld,
                Saving, Replaying, At
<1>5. CASE LoadState
  BY <1>5 DEF LoadState, Steered, CacheAgrees, WriteIsRecorded, RestoredIsUsers, SnapshotHeld,
              Saving, Replaying, At
<1>6. CASE LoadThrows
  BY <1>6, EndingStep DEF LoadThrows, Thrown, Steered, SnapshotHeld
<1>7. ASSUME NEW r \in Registers, Claim(r) PROVE Steered'
  <2>1. /\ At("claim", r) /\ loaded /\ loaded' /\ cache = db /\ restored = {}
        /\ restored' = restored /\ reg' = reg
    BY <1>7 DEF Claim, SaveState, Steered, CacheAgrees, RestoredIsUsers, Replaying, Saving, At
  <2>2. cache' = db' /\ \A q \in Registers : db[q] # Empty => db'[q] # Empty
    BY <1>7, <2>1 DEF Claim, SaveState, Typed, TypeOK
  <2>3. HoldWithoutReadback(r) \/ (Proceed /\ db'[r] # Empty)
    BY <1>7, <2>1 DEF Claim, SaveState, Typed, TypeOK
  <2>4. WriteIsRecorded'
    <3>1. CASE Proceed /\ db'[r] # Empty
      <4>1. \A q \in Registers : At("claim", q) => db'[q] # Empty
        BY <2>1, <3>1 DEF At
      <4>2. QED
        BY <2>2, <3>1, <4>1, ProceedRecorded DEF Steered
    <3>2. CASE HoldWithoutReadback(r)
      BY <3>2 DEF HoldWithoutReadback, GridStage, MoveTo, Finished, WriteIsRecorded, At
    <3>3. QED
      BY <2>3, <3>1, <3>2
  <2>5. CacheAgrees' /\ RestoredIsUsers' /\ SnapshotHeld'
    BY <2>1, <2>2 DEF CacheAgrees, RestoredIsUsers, SnapshotHeld, Steered
  <2>6. QED
    BY <2>4, <2>5 DEF Steered
<1>8. ASSUME NEW r \in Registers, ClaimThrows(r) PROVE Steered'
  BY <1>8, EndingStep DEF ClaimThrows, SaveThrows, Thrown, Steered, SnapshotHeld
<1>9. CASE Decide \/ EvStep
  <2>1. ~Claiming /\ ~Replaying /\ ~Saving
    BY <1>9 DEF Decide, EvStep, Claiming, Replaying, Saving, At
  <2>2. QED
    BY <1>9, <2>1, MovingStep DEF Decide, EvStep
<1>10. ASSUME NEW r \in Registers, WriteRejected(r) PROVE Steered'
  <2>1. ~Claiming /\ ~Replaying /\ ~Saving
    BY <1>10 DEF WriteRejected, Claiming, Replaying, Saving, At
  <2>2. QED
    BY <1>10, <2>1, MovingStep DEF WriteRejected
<1>11. ASSUME NEW r \in Registers, Write(r) PROVE Steered'
  <2>1. /\ At("write", r) /\ Proceed /\ UNCHANGED <<db, cache, loaded, restored>>
        /\ ~Claiming /\ ~Replaying /\ ~Saving
    BY <1>11 DEF Write, Claiming, Replaying, Saving, At
  <2>2. \A q \in Registers : q = r \/ reg'[q] = reg[q]
    BY <1>11 DEF Write, Typed, TypeOK
  <2>3. restored = {} /\ db[r] # Empty
    BY <2>1 DEF Steered, RestoredIsUsers, WriteIsRecorded
  <2>4. SnapshotHeld' /\ RestoredIsUsers'
    BY <2>1, <2>2, <2>3 DEF SnapshotHeld, RestoredIsUsers, Steered
  <2>5. CacheAgrees'
    BY <2>1, ReleaseGoesOn DEF CacheAgrees, Steered
  <2>6. WriteIsRecorded'
    BY <2>1, ProceedRecorded DEF Claiming, Steered
  <2>7. QED
    BY <2>4, <2>5, <2>6 DEF Steered
<1>12. ASSUME NEW r \in Registers, WriteThrows(r) PROVE Steered'
  <2>1. At("write", r) /\ Finished /\ restored' = {} /\ UNCHANGED <<db, cache, loaded>>
    BY <1>12 DEF WriteThrows, Thrown
  <2>2. \A q \in Registers : q = r \/ reg'[q] = reg[q]
    BY <1>12 DEF WriteThrows, Typed, TypeOK
  <2>3. SnapshotHeld'
    BY <2>1, <2>2 DEF SnapshotHeld, Steered, WriteIsRecorded
  <2>4. QED
    BY <2>1, <2>3, EndingStep
<1>13. ASSUME NEW r \in Registers, Replay(r) \/ ReplaySkipped(r) \/ ReplayFails(r)
       PROVE  Steered'
  <2>1. /\ At("replay", r) /\ loaded /\ Proceed /\ UNCHANGED <<db, cache, loaded>>
        /\ Replaying
    BY <1>13 DEF Replay, ReplaySkipped, ReplayFails, Replaying
  <2>2. reg' = reg \/ reg' = HandedBack(r)
    BY <1>13 DEF Replay, ReplaySkipped, ReplayFails
  <2>3. \A q \in Registers : reg'[q].by = "user" \/ reg'[q] = reg[q]
    BY <2>2 DEF HandedBack, Typed, TypeOK
  <2>4. /\ restored' \subseteq restored \cup {r}
        /\ restored' = restored \/ reg' = HandedBack(r)
    BY <1>13 DEF Replay, ReplaySkipped, ReplayFails
  <2>5. reg' = HandedBack(r) => reg'[r].by = "user"
    BY DEF HandedBack, Typed, TypeOK
  <2>6. \A q \in restored' : reg'[q].by = "user"
    BY <2>3, <2>4, <2>5 DEF Steered, RestoredIsUsers, Typed, TypeOK
  <2>7. RestoredIsUsers'
    BY <2>1, <2>6, ReleaseGoesOn DEF RestoredIsUsers
  <2>8. SnapshotHeld'
    BY <2>1, <2>3 DEF SnapshotHeld, Steered
  <2>9. CacheAgrees' /\ WriteIsRecorded'
    BY <2>1, ReleaseRecorded DEF CacheAgrees, Steered
  <2>10. QED
    BY <2>7, <2>8, <2>9 DEF Steered
<1>14. CASE DropRestored
  <2>1. /\ Saving /\ Proceed /\ loaded /\ loaded' /\ cache = db
        /\ db' = Dropped /\ cache' = Dropped /\ restored' = {} /\ reg' = reg
    BY <1>14 DEF DropRestored, SaveState, Steered, CacheAgrees
  <2>2. \A q \in Registers : db'[q] = db[q] \/ reg[q].by = "user"
    BY <2>1 DEF Dropped, Steered, RestoredIsUsers
  <2>3. SnapshotHeld'
    BY <2>1, <2>2 DEF SnapshotHeld, Steered
  <2>4. CacheAgrees' /\ RestoredIsUsers'
    BY <2>1 DEF CacheAgrees, RestoredIsUsers
  <2>5. QED
    BY <2>1, <2>3, <2>4, ReleaseRecorded DEF Steered
<1>15. CASE NothingRestored
  <2>1. ~Claiming /\ loaded
    BY <1>15 DEF NothingRestored, Claiming, Saving, At, Steered, CacheAgrees
  <2>2. QED
    BY <1>15, <2>1, MovingStep DEF NothingRestored
<1>16. CASE DropThrows \/ TickThrows
  BY <1>16, EndingStep DEF DropThrows, TickThrows, SaveThrows, Thrown, Steered, SnapshotHeld
<1>17. CASE UNCHANGED vars
  BY <1>17, QuietStep DEF vars
<1>18. QED
  BY <1>1, <1>2, <1>3, <1>4, <1>5, <1>6, <1>7, <1>8, <1>9, <1>10, <1>11, <1>12, <1>13, <1>14,
     <1>15, <1>16, <1>17
  DEF Next, TickStep, TickFault, Surroundings

\* In the first state no register is steered and no tick is under way.
LEMMA SteeredInit == Init => Steered
<1> SUFFICES ASSUME Init PROVE Steered
  OBVIOUS
<1>1. \A r \in Registers : reg[r].by = "user"
  BY DEF Init
<1>2. QED
  BY <1>1 DEF Init, Steered, CacheAgrees, WriteIsRecorded, RestoredIsUsers, SnapshotHeld,
              Saving, Replaying, At

(***************************************************************************)
(* When a save that throws has not committed, a register holding a         *)
(* steering command always has its slot in the database: for any number of *)
(* crashes, failed writes, failed saves and user edits (ensureSnapshot,    *)
(* restoreSnapshot, releaseGridCharge, releaseSellLimit).                  *)
(***************************************************************************)
THEOREM SnapshotAlwaysHeld == (LostCommits = FALSE) => (Spec => []SnapshotHeld)
<1> SUFFICES ASSUME LostCommits = FALSE PROVE Spec => []SnapshotHeld
  OBVIOUS
<1>1. Init => Typed /\ Steered
  BY SteeredInit, TypedInit
<1>2. Typed /\ Steered /\ [Next]_vars => Typed' /\ Steered'
  BY TypedStep, SteeredStep
<1>3. Typed /\ Steered => SnapshotHeld
  BY DEF Steered
<1>4. QED
  BY <1>1, <1>2, <1>3, PTL DEF Spec

(***************************************************************************)
(* Under the same assumption no slot ever comes to record a steering       *)
(* command that is still in its register, restarts included: ensureSnapshot*)
(* saves only into an empty slot, and an empty slot means a register the   *)
(* engine does not hold.                                                   *)
(***************************************************************************)
THEOREM NeverRecaptures == (LostCommits = FALSE) => (Spec => RestartNeverRecaptures)
<1> DEFINE Safe == \A r \in Registers :
                     (db[r].by # "engine" /\ db'[r].by = "engine") => reg[r].by = "user"
<1> SUFFICES ASSUME LostCommits = FALSE PROVE Spec => RestartNeverRecaptures
  OBVIOUS
<1>1. ASSUME Typed, Steered, [Next]_vars PROVE [Safe]_vars
  <2> USE <1>1 DEF store, polled, settings, tick, boot
  <2>1. ASSUME NEW r \in Registers, Claim(r) PROVE Safe
    <3>1. cache = db
      BY <2>1 DEF Claim, Steered, CacheAgrees
    <3>2. \/ db' = db
          \/ db[r] = Empty /\ \A q \in Registers : q # r => db'[q] = db[q]
      BY <2>1, <3>1 DEF Claim, SaveState, Typed, TypeOK
    <3>3. db[r] = Empty => reg[r].by = "user"
      BY DEF Steered, SnapshotHeld, Typed, TypeOK, Content
    <3>4. QED
      BY <3>2, <3>3
  <2>2. CASE DropRestored
    <3>1. \A q \in Registers : db'[q] = Empty \/ db'[q] = db[q]
      BY <2>2 DEF DropRestored, SaveState, Dropped, Steered, CacheAgrees
    <3>2. QED
      BY <3>1 DEF Empty
  <2>3. CASE UNCHANGED db
    BY <2>3
  <2>4. \/ UNCHANGED db \/ DropRestored \/ \E r \in Registers : Claim(r)
    BY DEF Next, TickStep, TickFault, Surroundings, vars, UserEdit, PollOnce, SampleAges,
           Restart, PutConfig, ApplyConfig, TimerFires, StartTick, StartThrows, LoadState,
           LoadThrows, ClaimThrows, Decide, Write, WriteRejected, WriteThrows, Replay,
           ReplaySkipped, ReplayFails, NothingRestored, DropThrows, EvStep, TickThrows,
           SaveThrows
  <2>5. QED
    BY <2>1, <2>2, <2>3, <2>4
<1>2. Init => Typed /\ Steered
  BY SteeredInit, TypedInit
<1>3. Typed /\ Steered /\ [Next]_vars => Typed' /\ Steered'
  BY TypedStep, SteeredStep
<1>4. QED
  BY <1>1, <1>2, <1>3, PTL DEF Spec, RestartNeverRecaptures

(***************************************************************************)
(* Under the same assumption a steering command reaches a grid-charge      *)
(* register only when both slots are recorded (steerGridCharge).           *)
(***************************************************************************)
THEOREM GridClaimedWhole == (LostCommits = FALSE) => (Spec => GridNeverHalfClaimed)
<1> DEFINE Whole == (\E r \in {"gridOn", "gridA"} : reg'[r].by = "engine" /\ reg'[r] # reg[r])
                      => db["gridOn"] # Empty /\ db["gridA"] # Empty
<1> SUFFICES ASSUME LostCommits = FALSE PROVE Spec => GridNeverHalfClaimed
  OBVIOUS
<1>1. ASSUME Typed, Steered, [Next]_vars PROVE [Whole]_vars
  <2> USE <1>1 DEF store, polled, settings, tick, boot
  <2>1. ASSUME NEW r \in Registers, Write(r) \/ WriteThrows(r) PROVE Whole
    <3>1. At("write", r) /\ \A q \in Registers : q = r \/ reg'[q] = reg[q]
      BY <2>1 DEF Write, WriteThrows, Typed, TypeOK
    <3>2. r \in {"gridOn", "gridA"} => db["gridOn"] # Empty /\ db["gridA"] # Empty
      BY <3>1 DEF Steered, WriteIsRecorded, At, Registers
    <3>3. QED
      BY <3>1, <3>2 DEF Registers
  <2>2. ASSUME NEW r \in Registers, UserEdit(r) \/ Replay(r) \/ ReplayFails(r) PROVE Whole
    <3>1. \A q \in Registers : reg'[q].by = "user" \/ reg'[q] = reg[q]
      BY <2>2 DEF UserEdit, Replay, ReplayFails, HandedBack, Typed, TypeOK
    <3>2. QED
      BY <3>1 DEF Registers
  <2>3. CASE UNCHANGED reg
    BY <2>3
  <2>4. \/ UNCHANGED reg
        \/ \E r \in Registers : Write(r) \/ WriteThrows(r)
        \/ \E r \in Registers : UserEdit(r) \/ Replay(r) \/ ReplayFails(r)
    BY DEF Next, TickStep, TickFault, Surroundings, vars, PollOnce, SampleAges,
           Restart, PutConfig, ApplyConfig, TimerFires, StartTick, StartThrows, LoadState,
           LoadThrows, Claim, ClaimThrows, Decide, WriteRejected, ReplaySkipped,
           DropRestored, NothingRestored, DropThrows, EvStep, TickThrows
  <2>5. QED
    BY <2>1, <2>2, <2>3, <2>4
<1>2. Init => Typed /\ Steered
  BY SteeredInit, TypedInit
<1>3. Typed /\ Steered /\ [Next]_vars => Typed' /\ Steered'
  BY TypedStep, SteeredStep
<1>4. QED
  BY <1>1, <1>2, <1>3, PTL DEF Spec, GridNeverHalfClaimed
-----------------------------------------------------------------------------
\* A tick under way moves on without touching the queue, or ends and leaves it shorter by one.
LEMMA TickDepth ==
  ASSUME Proceed \/ Thrown \/ (\E r \in Registers : HoldWithoutReadback(r))
  PROVE  (stage' = "idle" /\ depth' = depth - 1) \/ (stage' # "idle" /\ depth' = depth)
BY DEF Proceed, Thrown, HoldWithoutReadback, MoveTo, GridStage, Finished

(***************************************************************************)
(* Settings saved by a PUT are always followed by a tick that reads them:  *)
(* the queue of createPeakShavingEngine never swallows a hot-apply, with   *)
(* no assumption on saves.                                                 *)
(***************************************************************************)
THEOREM LatestConfigRead == Spec => []LatestConfigWins
<1>1. Init => LatestConfigWins
  BY DEF Init, LatestConfigWins
<1>2. ASSUME Typed, LatestConfigWins, [Next]_vars PROVE LatestConfigWins'
  <2> USE <1>2 DEF store, polled, settings, tick, boot
  <2>0. depth \in 0..2 /\ (stage # "idle" => depth >= 1)
    BY DEF Typed, TypeOK, RunningIsCounted
  <2>1. CASE UNCHANGED <<config, applied, applying, depth, stage>>
    BY <2>1 DEF LatestConfigWins
  <2>2. CASE PutConfig \/ Restart
    BY <2>2 DEF PutConfig, Restart, LatestConfigWins
  <2>3. CASE ApplyConfig \/ TimerFires
    <3>1. UNCHANGED <<config, applied, stage>> /\ depth' = (IF depth >= 2 THEN depth ELSE depth + 1)
      BY <2>3 DEF ApplyConfig, TimerFires, Requested
    <3>2. depth' > (IF stage = "idle" THEN 0 ELSE 1)
      BY <2>0, <3>1
    <3>3. QED
      BY <3>1, <3>2 DEF LatestConfigWins
  <2>4. CASE StartTick \/ StartThrows
    BY <2>4 DEF StartTick, StartThrows, LatestConfigWins
  <2>5. CASE /\ stage # "idle" /\ UNCHANGED <<config, applied, applying>>
             /\ Proceed \/ Thrown \/ \E r \in Registers : HoldWithoutReadback(r)
    <3>1. (stage' = "idle" /\ depth' = depth - 1) \/ (stage' # "idle" /\ depth' = depth)
      BY <2>5, TickDepth
    <3>2. QED
      BY <2>0, <2>5, <3>1 DEF LatestConfigWins
  <2>6. ASSUME NEW r \in Registers,
               \/ Claim(r) \/ ClaimThrows(r) \/ Write(r) \/ WriteRejected(r) \/ WriteThrows(r)
               \/ Replay(r) \/ ReplaySkipped(r) \/ ReplayFails(r)
        PROVE  LatestConfigWins'
    <3>1. /\ stage # "idle" /\ UNCHANGED <<config, applied, applying>>
          /\ Proceed \/ Thrown \/ HoldWithoutReadback(r)
      BY <2>6 DEF Claim, ClaimThrows, Write, WriteRejected, WriteThrows, Replay, ReplaySkipped,
                  ReplayFails, SaveThrows, At
    <3>2. QED
      BY <2>5, <3>1
  <2>7. CASE LoadThrows \/ Decide \/ DropRestored \/ NothingRestored \/ DropThrows \/ EvStep
             \/ TickThrows
    <3>1. stage # "idle"
      BY <2>7, BusyPlaces DEF LoadThrows, Decide, DropRestored, NothingRestored, DropThrows,
                              EvStep, TickThrows, At
    <3>2. UNCHANGED <<config, applied, applying>> /\ (Proceed \/ Thrown)
      BY <2>7 DEF LoadThrows, Decide, DropRestored, NothingRestored, DropThrows, EvStep,
                  TickThrows, SaveThrows
    <3>3. QED
      BY <2>5, <3>1, <3>2
  <2>8. ASSUME NEW r \in Registers, UserEdit(r) PROVE LatestConfigWins'
    BY <2>1, <2>8 DEF UserEdit
  <2>9. CASE PollOnce \/ SampleAges \/ LoadState \/ UNCHANGED vars
    BY <2>1, <2>9 DEF PollOnce, SampleAges, LoadState, vars
  <2>10. QED
    BY <2>2, <2>3, <2>4, <2>6, <2>7, <2>8, <2>9 DEF Next, TickStep, TickFault, Surroundings
<1>3. QED
  BY <1>1, <1>2, TypedInit, TypedStep, PTL DEF Spec
=============================================================================
