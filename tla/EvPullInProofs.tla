---------------------------- MODULE EvPullInProofs ----------------------------
(***************************************************************************)
(* Proofs about the pull-in step of module EvPullIn, for any set of        *)
(* regimes, user choices and bounds.                                       *)
(***************************************************************************)
EXTENDS EvPullIn, TLAPS

\* Only a claim, a release and a save touch the step's own variables in a way that matters.
LEMMA SavesStep == SavesWhatIsHeld /\ [Next]_vars => SavesWhatIsHeld'
<1> SUFFICES ASSUME SavesWhatIsHeld, [Next]_vars PROVE SavesWhatIsHeld'
  OBVIOUS
<1>1. CASE Claim
  BY <1>1 DEF Claim, remember, SavesWhatIsHeld
<1>2. CASE Release
  BY <1>2 DEF Release, SavesWhatIsHeld
<1>3. CASE ReleaseThrows
  BY <1>3 DEF ReleaseThrows, SavesWhatIsHeld
<1>4. CASE Save \/ SaveThrows \/ Crash
  BY <1>4 DEF Save, SaveThrows, Crash, SavesWhatIsHeld
<1>5. CASE EvccTakes \/ UserEdit \/ EvccStops \/ EvccStarts \/ AskChanges
  BY <1>5 DEF EvccTakes, UserEdit, EvccStops, EvccStarts, AskChanges, engine, SavesWhatIsHeld
<1>6. CASE \E f \in Leaves : LeafArrives(f)
  BY <1>6 DEF LeafArrives, engine, SavesWhatIsHeld
<1>7. CASE StatusArrives \/ LinkRestored \/ LinkDrops \/ Rebuild
  BY <1>7 DEF StatusArrives, LinkRestored, LinkDrops, Rebuild, engine, SavesWhatIsHeld
<1>8. CASE UNCHANGED vars
  BY <1>8 DEF vars, SavesWhatIsHeld
<1> QED
  BY <1>1, <1>2, <1>3, <1>4, <1>5, <1>6, <1>7, <1>8 DEF Next

\* The slot changes only when a step saves.
LEMMA OnlySavesWrite == [Next]_vars => slot' = slot \/ Save
<1> SUFFICES ASSUME [Next]_vars, ~Save PROVE slot' = slot
  OBVIOUS
<1>1. CASE Claim \/ Release \/ ReleaseThrows \/ SaveThrows \/ Crash
  BY <1>1 DEF Claim, Release, ReleaseThrows, SaveThrows, Crash
<1>2. CASE EvccTakes \/ UserEdit \/ EvccStops \/ EvccStarts \/ AskChanges
  BY <1>2 DEF EvccTakes, UserEdit, EvccStops, EvccStarts, AskChanges, engine
<1>3. CASE \E f \in Leaves : LeafArrives(f)
  BY <1>3 DEF LeafArrives, engine
<1>4. CASE StatusArrives \/ LinkRestored \/ LinkDrops \/ Rebuild
  BY <1>4 DEF StatusArrives, LinkRestored, LinkDrops, Rebuild, engine
<1>5. CASE UNCHANGED vars
  BY <1>5 DEF vars
<1> QED
  BY <1>1, <1>2, <1>3, <1>4, <1>5 DEF Next

(***************************************************************************)
(* However ticks, reports, edits, outages, failed saves and crashes        *)
(* interleave, what is remembered of a loadpoint is never replaced while   *)
(* it is held (planEvPullIn, claimLoadpoints and releaseLoadpoints).       *)
(***************************************************************************)
THEOREM OriginalsNeverReplaced == Spec => OriginalsKept
<1>1. Init => SavesWhatIsHeld
  BY DEF Init, SavesWhatIsHeld
<1>2. SavesWhatIsHeld /\ [Next]_vars => SavesWhatIsHeld'
  BY SavesStep
<1>3. SavesWhatIsHeld /\ [Next]_vars => [slot # Free /\ slot' # Free => slot' = slot]_vars
  <2> SUFFICES ASSUME SavesWhatIsHeld, [Next]_vars, slot # Free, slot' # Free
               PROVE slot' = slot
    OBVIOUS
  <2>1. CASE Save
    BY <2>1 DEF Save, SavesWhatIsHeld
  <2> QED
    BY <2>1, OnlySavesWrite
<1> QED
  BY <1>1, <1>2, <1>3, PTL DEF Spec, OriginalsKept

-----------------------------------------------------------------------------
(* The boost limit. *)

Words == {"none"} \cup UNION {Values[f] : f \in Leaves}

\* The settings, EVCC's and the ingest's, as functions.
Shapes ==
  TypeOK /\ car \in [Leaves -> Words] /\ seen \in [Leaves -> Words]

\* What is held is the user's: a limit of the engine's that was remembered is lost.
UsersOwn ==
  ~lost => slot.limit # "floor" /\ next.limit # "floor"

\* Once a hand-back is out the engine's limit is not to come any more.
HandedBack ==
  stage = "saving" /\ next = Free /\ ~lost => ~FloorToCome

(***************************************************************************)
(* The inductive invariant: between the hand-back and the save that frees  *)
(* the slot, the limit that was held is the last one on its way.           *)
(***************************************************************************)
IInv == Shapes /\ UsersOwn /\ HandedBack /\ LimitIsHeld

\* The settings of a loadpoint and what each may be.
LEMMA LeavesAre ==
  /\ Leaves = {"connected", "mode", "limit", "boost"}
  /\ Values["connected"] = {"true"} /\ Values["boost"] = {"true", "false"}
  /\ Values["mode"] = {"off", "pv", "minpv", "now"}
  /\ Values["limit"] = {"floor", "disabled", "own"}
  BY DEF Leaves, Values

\* A command is one of three settings and a value of it.
LEMMA CommandShape ==
  ASSUME NEW c \in Commands
  PROVE  /\ c = Command(c.key, c.v) /\ c.key \in {"mode", "limit", "boost"}
         /\ c.v \in Values[c.key]
  BY LeavesAre DEF Commands, Command

LEMMA CommandIn ==
  ASSUME NEW f \in {"mode", "limit", "boost"}, NEW v \in Values[f]
  PROVE  Command(f, v) \in Commands /\ Command(f, v).key = f /\ Command(f, v).v = v
  BY LeavesAre DEF Commands, Command

\* A word is a value of some setting.
LEMMA WordsIn ==
  ASSUME NEW f \in Leaves, NEW v \in Values[f] PROVE v \in Words
  BY DEF Words

\* EVCC obeys: the settings stay settings, and only a limit command sets the limit.
LEMMA ObeyKeeps ==
  ASSUME Shapes, NEW c \in Commands
  PROVE  /\ Obey(c) \in [Leaves -> Words] /\ \A f \in Leaves : Obey(c)[f] \in Values[f]
         /\ Obey(c).limit = IF c.key = "limit" THEN c.v ELSE car.limit
<1>1. /\ car \in [Leaves -> Words] /\ \A f \in Leaves : car[f] \in Values[f]
      /\ c.key \in {"mode", "limit", "boost"} /\ c.v \in Values[c.key]
  BY CommandShape DEF Shapes, TypeOK
<1>2. "mode" \in Leaves /\ "boost" \in Leaves /\ "limit" \in Leaves /\ c.key \in Leaves
  BY <1>1, LeavesAre
<1>3. c.v \in Words /\ "false" \in Values["boost"] /\ "false" \in Words
  BY <1>1, <1>2, WordsIn, LeavesAre
<1>4. CASE c.key = "mode" /\ c.v # car.mode
  <2>1. Obey(c) = [car EXCEPT !.mode = c.v, !.boost = "false"]
    BY <1>4 DEF Obey
  <2> QED
    BY <1>1, <1>2, <1>3, <1>4, <2>1
<1>5. CASE Obey(c) = car /\ c.key # "limit"
  BY <1>1, <1>5
<1>6. CASE Obey(c) = [car EXCEPT ![c.key] = c.v]
  BY <1>1, <1>2, <1>3, <1>6
<1>7. \/ c.key = "mode" /\ c.v # car.mode
      \/ Obey(c) = car /\ c.key # "limit"
      \/ Obey(c) = [car EXCEPT ![c.key] = c.v]
  BY <1>1 DEF Obey
<1> QED
  BY <1>4, <1>5, <1>6, <1>7

\* With limit l in force and commands w on their way, the engine's limit is to come.
Coming(l, w) ==
  \/ l = "floor" /\ \A k \in 1..Len(w) : w[k].key # "limit"
  \/ \E k \in 1..Len(w) :
       /\ w[k] = Command("limit", "floor")
       /\ \A j \in (k + 1)..Len(w) : w[j].key # "limit"

\* Taking a command does not change which limit is to come.
LEMMA TakenComes ==
  ASSUME NEW w \in Seq(Commands), w # <<>>, NEW l, NEW m,
         m = IF Head(w).key = "limit" THEN Head(w).v ELSE l,
         Coming(m, Tail(w))
  PROVE  Coming(l, w)
<1> DEFINE u == Tail(w)
<1>1. Len(w) \in Nat /\ Len(w) >= 1 /\ Len(u) = Len(w) - 1 /\ Head(w) = w[1] /\ w[1] \in Commands
  OBVIOUS
<1>2. \A k \in 1..Len(u) : u[k] = w[k + 1]
  OBVIOUS
<1> HIDE DEF u
<1>3. Coming(m, u)
  BY DEF u
<1>4. CASE \E k \in 1..Len(u) : /\ u[k] = Command("limit", "floor")
                                /\ \A j \in (k + 1)..Len(u) : u[j].key # "limit"
  <2>1. PICK k \in 1..Len(u) : /\ u[k] = Command("limit", "floor")
                               /\ \A j \in (k + 1)..Len(u) : u[j].key # "limit"
    BY <1>4
  <2>2. k + 1 \in 1..Len(w) /\ w[k + 1] = Command("limit", "floor")
    BY <1>1, <1>2, <2>1
  <2>3. ASSUME NEW j \in (k + 1 + 1)..Len(w) PROVE w[j].key # "limit"
    <3>1. j - 1 \in (k + 1)..Len(u) /\ j - 1 \in 1..Len(u) /\ (j - 1) + 1 = j
      BY <1>1, <2>1
    <3> QED
      BY <1>2, <2>1, <3>1
  <2> QED
    BY <2>2, <2>3 DEF Coming
<1>5. CASE m = "floor" /\ \A k \in 1..Len(u) : u[k].key # "limit"
  <2>1. ASSUME NEW j \in 2..Len(w) PROVE w[j].key # "limit"
    <3>1. j - 1 \in 1..Len(u) /\ (j - 1) + 1 = j
      BY <1>1
    <3> QED
      BY <1>2, <1>5, <3>1
  <2>2. CASE w[1].key = "limit"
    <3>1. w[1] = Command("limit", "floor")
      BY <1>1, <1>5, <2>2, CommandShape
    <3>2. 1 \in 1..Len(w) /\ 1 + 1 = 2
      BY <1>1
    <3> QED
      BY <2>1, <3>1, <3>2 DEF Coming
  <2>3. CASE w[1].key # "limit"
    <3>1. l = "floor"
      BY <1>1, <1>5, <2>3
    <3>2. \A k \in 1..Len(w) : k = 1 \/ k \in 2..Len(w)
      BY <1>1
    <3> QED
      BY <2>1, <2>3, <3>1, <3>2 DEF Coming
  <2> QED
    BY <2>2, <2>3
<1> QED
  BY <1>3, <1>4, <1>5 DEF Coming

\* A hand-back ends with the limit that was held.
LEMMA HandBackSettles ==
  ASSUME NEW w \in Seq(Commands), NEW u \in Seq(Commands), NEW l, NEW i \in 1..Len(u),
         u[i].key = "limit", u[i].v # "floor", \A j \in (i + 1)..Len(u) : u[j].key # "limit"
  PROVE  ~Coming(l, w \o u)
<1> DEFINE p == w \o u
<1>1. Len(w) \in Nat /\ Len(u) \in Nat /\ Len(p) = Len(w) + Len(u)
  OBVIOUS
<1>2. \A k \in 1..Len(u) : p[Len(w) + k] = u[k]
  OBVIOUS
<1> HIDE DEF p
<1>3. Len(w) + i \in 1..Len(p) /\ p[Len(w) + i].key = "limit" /\ p[Len(w) + i].v # "floor"
  BY <1>1, <1>2
<1>4. ASSUME NEW k \in 1..Len(p), p[k] = Command("limit", "floor"),
             \A j \in (k + 1)..Len(p) : p[j].key # "limit"
      PROVE  FALSE
  <2>1. k # Len(w) + i /\ p[k].key = "limit"
    BY <1>3, <1>4 DEF Command
  <2>2. Len(w) + i \notin (k + 1)..Len(p)
    BY <1>3, <1>4
  <2>3. k > Len(w) + i
    BY <1>1, <1>3, <2>1, <2>2
  <2>4. k - Len(w) \in (i + 1)..Len(u) /\ k - Len(w) \in 1..Len(u) /\ Len(w) + (k - Len(w)) = k
    BY <1>1, <2>3
  <2>5. p[k] = u[k - Len(w)]
    BY <1>2, <2>4
  <2> QED
    BY <2>1, <2>4, <2>5
<1>5. ~Coming(l, p)
  BY <1>3, <1>4 DEF Coming
<1> QED
  BY <1>5 DEF p

LEMMA FloorComes ==
  FloorToCome <=> Coming(car.limit, wire)
  BY DEF FloorToCome, Coming

\* What a claim publishes are commands.
LEMMA ClaimCommands ==
  ASSUME Shapes PROVE claimFor \in Seq(Commands)
<1>1. ASSUME NEW f \in {"mode", "limit", "boost"}, NEW v \in Values[f], NEW x
      PROVE  differing(f, v, x) \in Seq(Commands)
  <2>1. <<Command(f, v)>> \in Seq(Commands) /\ <<>> \in Seq(Commands)
    BY CommandIn
  <2> QED
    BY <2>1 DEF differing
<1> DEFINE a == IF seen.mode \in {"pv", "minpv"} THEN <<>> ELSE differing("mode", "pv", seen.mode)
           b == IF ask = "spend-down" THEN differing("limit", "floor", seen.limit) ELSE <<>>
           c == differing("boost", IF ask = "spend-down" THEN "true" ELSE "false", boosting)
<1>2. <<>> \in Seq(Commands)
  OBVIOUS
<1>3. a \in Seq(Commands) /\ b \in Seq(Commands) /\ c \in Seq(Commands)
  <2>1. "pv" \in Values["mode"] /\ "floor" \in Values["limit"]
        /\ (IF ask = "spend-down" THEN "true" ELSE "false") \in Values["boost"]
    BY LeavesAre
  <2> QED
    BY <1>1, <1>2, <2>1
<1>4. claimFor = a \o b \o c
  BY DEF claimFor
<1> HIDE DEF a, b, c
<1> QED
  BY <1>3, <1>4

\* What a claim remembers is a snapshot.
LEMMA Remembered ==
  ASSUME Shapes PROVE remember \in Slots /\ remember # Free
<1>1. seen["mode"] \in Values["mode"] \cup {"none"} /\ seen["limit"] \in Values["limit"] \cup {"none"}
  BY LeavesAre DEF Shapes, TypeOK
<1>2. originals \in [mode : Values["mode"], limit : Values["limit"]]
  BY <1>1, LeavesAre DEF originals
<1>3. originals # Free
  <2>1. originals.mode # "none"
    BY <1>2, LeavesAre
  <2> QED
    BY <2>1 DEF Free
<1> QED
  BY <1>2, <1>3 DEF remember, Slots, Shapes, TypeOK

\* What one list of commands followed by another is.
LEMMA Joined ==
  ASSUME NEW w \in Seq(Commands), NEW u \in Seq(Commands)
  PROVE  /\ w \o u \in Seq(Commands) /\ Len(w \o u) = Len(w) + Len(u)
         /\ \A k \in 1..(Len(w) + Len(u)) :
              (w \o u)[k] = IF k <= Len(w) THEN w[k] ELSE u[k - Len(w)]
  OBVIOUS

\* A hand-back: the limit that was held, and no other limit after it.
LEMMA HandBackShape ==
  ASSUME Shapes, slot # Free
  PROVE  /\ handBack \in Seq(Commands) /\ 2 \in 1..Len(handBack)
         /\ handBack[2].key = "limit" /\ handBack[2].v = slot.limit
         /\ \A j \in (2 + 1)..Len(handBack) : handBack[j].key # "limit"
<1>1. slot.mode \in Values["mode"] /\ slot.limit \in Values["limit"]
  BY DEF Shapes, TypeOK, Slots
<1> DEFINE a == Command("boost", "false")
           b == Command("limit", slot.limit)
           c == Command("mode", slot.mode)
<1>2. /\ a \in Commands /\ b \in Commands /\ c \in Commands
      /\ b.key = "limit" /\ b.v = slot.limit /\ c.key = "mode"
  BY <1>1, CommandIn, LeavesAre
<1>3. handBack = <<a, b>> \o (IF restoreMode THEN <<c>> ELSE <<>>)
  BY DEF handBack
<1> HIDE DEF a, b, c
<1>4. CASE restoreMode
  <2>1. <<a, b>> \in Seq(Commands) /\ Len(<<a, b>>) = 2 /\ <<a, b>>[2] = b
    BY <1>2
  <2>2. <<c>> \in Seq(Commands) /\ Len(<<c>>) = 1 /\ <<c>>[1] = c
    BY <1>2
  <2>3. handBack = <<a, b>> \o <<c>>
    BY <1>3, <1>4
  <2>4. /\ handBack \in Seq(Commands) /\ Len(handBack) = 3
        /\ handBack[2] = b /\ handBack[3] = c
    <3> DEFINE w == <<a, b>>
               u == <<c>>
               p == handBack
    <3>1. /\ p \in Seq(Commands) /\ Len(p) = Len(w) + Len(u)
          /\ \A k \in 1..(Len(w) + Len(u)) : p[k] = IF k <= Len(w) THEN w[k] ELSE u[k - Len(w)]
      BY <2>1, <2>2, <2>3, Joined
    <3>2. Len(w) = 2 /\ w[2] = b /\ Len(u) = 1 /\ u[1] = c
      BY <2>1, <2>2
    <3> HIDE DEF w, u, p
    <3>3. 2 + 1 = 3 /\ 2 \in 1..3 /\ 3 \in 1..3 /\ 2 <= 2 /\ ~(3 <= 2) /\ 3 - 2 = 1
      OBVIOUS
    <3>4. Len(p) = 3 /\ p[2] = w[2] /\ p[3] = u[1]
      BY <3>1, <3>2, <3>3
    <3> QED
      BY <3>1, <3>2, <3>4 DEF p
  <2>5. 2 \in 1..3 /\ \A j \in (2 + 1)..3 : j = 3
    OBVIOUS
  <2> QED
    BY <1>2, <2>4, <2>5
<1>5. CASE ~restoreMode
  <2>1. handBack = <<a, b>>
    BY <1>2, <1>3, <1>5
  <2>2. Len(handBack) = 2 /\ handBack[2] = b
    BY <2>1
  <2>3. \A j \in (2 + 1)..2 : FALSE
    OBVIOUS
  <2>4. <<a, b>> \in Seq(Commands)
    BY <1>2
  <2> QED
    BY <1>2, <2>1, <2>2, <2>3, <2>4
<1> QED
  BY <1>4, <1>5

\* Publishing stays within the wire.
LEMMA Published ==
  ASSUME Shapes, NEW cs \in Seq(Commands), Publish(cs)
  PROVE  /\ wire' \in Seq(Commands) /\ Len(wire') <= MaxWire
         /\ evccUp => wire' = wire \o cs
<1>1. /\ wire \in Seq(Commands) /\ Len(wire) <= MaxWire
      /\ Len(wire) + Len(cs) <= MaxWire
      /\ wire' = IF evccUp THEN wire \o cs ELSE wire
  BY DEF Shapes, TypeOK, Publish
<1>2. wire \o cs \in Seq(Commands) /\ Len(wire \o cs) = Len(wire) + Len(cs)
  BY <1>1
<1> QED
  BY <1>1, <1>2

LEMMA InitHolds ==
  Init => IInv
<1> SUFFICES ASSUME Init PROVE IInv
  OBVIOUS
<1>1. PICK m \in UserModes, l \in UserLimits :
        car = [connected |-> "true", mode |-> m, limit |-> l, boost |-> "false"]
  BY DEF Init
<1>2. /\ evccUp = TRUE /\ wire = <<>> /\ linked = FALSE /\ online = FALSE /\ seen = Nothing
      /\ ask = "none" /\ slot = Free /\ stage = "idle" /\ next = Free
      /\ lost = FALSE /\ upsets = 0
  BY DEF Init
<1>3. m \in Values["mode"] /\ l \in Values["limit"] /\ l # "floor"
  BY EvPullInAssumption, LeavesAre
<1>4. car \in [Leaves -> Words] /\ (\A f \in Leaves : car[f] \in Values[f]) /\ car.limit = l
  <2>1. DOMAIN car = Leaves /\ car = [f \in DOMAIN car |-> car[f]]
    BY <1>1, LeavesAre
  <2>2. car["connected"] = "true" /\ car["mode"] = m /\ car["limit"] = l /\ car["boost"] = "false"
    BY <1>1
  <2>3. \A f \in Leaves : car[f] \in Values[f]
    BY <1>3, <2>2, LeavesAre
  <2>4. \A f \in Leaves : car[f] \in Words
    BY <2>3, WordsIn
  <2> QED
    BY <2>1, <2>2, <2>3, <2>4
<1>5. seen \in [Leaves -> Words] /\ \A f \in Leaves : seen[f] = "none"
  <2>1. "none" \in Words
    BY DEF Words
  <2>2. seen = [f \in Leaves |-> "none"]
    BY <1>2 DEF Nothing
  <2> QED
    BY <2>1, <2>2
<1>6. wire \in Seq(Commands) /\ Len(wire) = 0
  BY <1>2
<1>7. Free \in Slots /\ Free.limit = "none"
  BY DEF Slots, Free
<1>8. Shapes
  <2>1. Len(wire) <= MaxWire /\ upsets \in 0..MaxUpsets /\ ask \in Regimes
    BY <1>2, <1>6, EvPullInAssumption
  <2> QED
    BY <1>2, <1>4, <1>5, <1>6, <1>7, <2>1 DEF Shapes, TypeOK
<1>9. ~FloorToCome
  <2>1. \A k \in 1..0 : FALSE
    OBVIOUS
  <2> QED
    BY <1>3, <1>4, <1>6, <2>1 DEF FloorToCome
<1> QED
  BY <1>2, <1>7, <1>8, <1>9 DEF IInv, UsersOwn, HandedBack, LimitIsHeld

\* The rest of the invariant needs only what EVCC will do and what is held.
LEMMA NothingComes ==
  ASSUME IInv, UNCHANGED <<slot, stage, next>>, lost => lost', FloorToCome' /\ ~lost' => FloorToCome
  PROVE  UsersOwn' /\ HandedBack' /\ LimitIsHeld'
  BY DEF IInv, UsersOwn, HandedBack, LimitIsHeld, Held

\* EVCC takes a command.
LEMMA EvccTakesStep ==
  ASSUME IInv, EvccTakes PROVE IInv'
<1>1. /\ wire # <<>> /\ car' = Obey(Head(wire)) /\ wire' = Tail(wire)
      /\ UNCHANGED <<evccUp, linked, online, seen, ask, slot, stage, next, lost, upsets>>
  BY DEF EvccTakes, ingest, engine
<1>2. wire \in Seq(Commands) /\ Len(wire) <= MaxWire /\ MaxWire \in Nat
  BY EvPullInAssumption DEF IInv, Shapes, TypeOK
<1>3. Head(wire) \in Commands /\ Tail(wire) \in Seq(Commands) /\ Len(Tail(wire)) <= MaxWire
  BY <1>1, <1>2
<1>4. /\ car' \in [Leaves -> Words] /\ \A f \in Leaves : car'[f] \in Values[f]
      /\ car'.limit = IF Head(wire).key = "limit" THEN Head(wire).v ELSE car.limit
  BY <1>1, <1>3, ObeyKeeps DEF IInv
<1>5. Shapes'
  BY <1>1, <1>3, <1>4 DEF IInv, Shapes, TypeOK
<1>6. FloorToCome' => FloorToCome
  <2>1. FloorToCome' <=> Coming(car'.limit, wire')
    BY DEF FloorToCome, Coming
  <2> QED
    BY <1>1, <1>2, <1>4, <2>1, FloorComes, TakenComes
<1> QED
  BY <1>1, <1>5, <1>6, NothingComes DEF IInv

\* The user edits a setting: never to the engine's limit.
LEMMA UserEditStep ==
  ASSUME IInv, UserEdit PROVE IInv'
<1>1. /\ upsets < MaxUpsets /\ upsets' = upsets + 1
      /\ UNCHANGED <<evccUp, wire, linked, online, seen, ask, slot, stage, next, lost>>
  BY DEF UserEdit, ingest, engine
<1>2. PICK c \in Commands : car' = Obey(c) /\ (c.key = "limit" => c.v # "floor")
  <2>1. CASE \E m \in UserModes \ {car.mode} : car' = Obey(Command("mode", m))
    <3>1. PICK m \in UserModes : car' = Obey(Command("mode", m))
      BY <2>1
    <3>2. m \in Values["mode"]
      BY EvPullInAssumption, LeavesAre
    <3>3. Command("mode", m) \in Commands /\ Command("mode", m).key = "mode"
      BY <3>2, CommandIn
    <3> QED
      BY <3>1, <3>3
  <2>2. CASE \E l \in UserLimits \ {car.limit} : car' = Obey(Command("limit", l))
    <3>1. PICK l \in UserLimits : car' = Obey(Command("limit", l))
      BY <2>2
    <3>2. l \in Values["limit"] /\ l # "floor"
      BY EvPullInAssumption, LeavesAre
    <3>3. Command("limit", l) \in Commands /\ Command("limit", l).v = l
      BY <3>2, CommandIn
    <3> QED
      BY <3>1, <3>2, <3>3
  <2> QED
    BY <2>1, <2>2 DEF UserEdit
<1>3. /\ car' \in [Leaves -> Words] /\ \A f \in Leaves : car'[f] \in Values[f]
      /\ car'.limit = IF c.key = "limit" THEN c.v ELSE car.limit
  BY <1>2, ObeyKeeps DEF IInv
<1>4. upsets' \in 0..MaxUpsets
  BY <1>1, EvPullInAssumption DEF IInv, Shapes, TypeOK
<1>5. Shapes'
  BY <1>1, <1>3, <1>4 DEF IInv, Shapes, TypeOK
<1>6. FloorToCome' => FloorToCome
  <2>1. car'.limit = "floor" => car.limit = "floor"
    BY <1>2, <1>3
  <2> QED
    BY <1>1, <2>1 DEF FloorToCome
<1> QED
  BY <1>1, <1>5, <1>6, NothingComes DEF IInv

\* EVCC stops: a command that goes with it is lost.
LEMMA EvccStopsStep ==
  ASSUME IInv, EvccStops PROVE IInv'
<1>1. /\ upsets < MaxUpsets /\ upsets' = upsets + 1 /\ evccUp' = FALSE
      /\ car' = [car EXCEPT !.boost = "false"] /\ wire' = <<>> /\ lost' = (lost \/ wire # <<>>)
      /\ UNCHANGED <<linked, online, seen, ask, slot, stage, next>>
  BY DEF EvccStops, ingest, engine
<1>2. /\ car \in [Leaves -> Words] /\ \A f \in Leaves : car[f] \in Values[f]
      /\ lost \in BOOLEAN
  BY DEF IInv, Shapes, TypeOK
<1>3. "boost" \in Leaves /\ "limit" \in Leaves /\ "false" \in Values["boost"] /\ "false" \in Words
  BY LeavesAre, WordsIn
<1>4. /\ car' \in [Leaves -> Words] /\ \A f \in Leaves : car'[f] \in Values[f]
      /\ car'.limit = car.limit
  BY <1>1, <1>2, <1>3
<1>5. upsets' \in 0..MaxUpsets
  BY <1>1, EvPullInAssumption DEF IInv, Shapes, TypeOK
<1>6. wire' \in Seq(Commands) /\ Len(wire') <= MaxWire
  BY <1>1, EvPullInAssumption
<1>7. lost' \in BOOLEAN
  BY <1>1
<1>8. Shapes'
  BY <1>1, <1>4, <1>5, <1>6, <1>7 DEF IInv, Shapes, TypeOK
<1>9. ~lost' => wire' = wire
  BY <1>1
<1>10. FloorToCome' /\ ~lost' => FloorToCome
  BY <1>4, <1>9 DEF FloorToCome
<1>11. lost => lost'
  BY <1>1
<1> QED
  BY <1>1, <1>8, <1>10, <1>11, NothingComes DEF IInv

\* What reaches the ingest, and what is asked, changes neither side.
LEMMA IngestStep ==
  ASSUME IInv,
         \/ EvccStarts \/ AskChanges \/ StatusArrives \/ LinkRestored \/ Rebuild
         \/ \E f \in Leaves : LeafArrives(f)
  PROVE  IInv'
<1>1. UNCHANGED <<car, wire, slot, stage, next, lost>>
  BY DEF EvccStarts, AskChanges, StatusArrives, LinkRestored, Rebuild, LeafArrives, ingest, engine
<1>2. /\ evccUp \in BOOLEAN /\ linked \in BOOLEAN /\ online \in BOOLEAN /\ ask \in Regimes
      /\ upsets \in 0..MaxUpsets /\ MaxUpsets \in Nat
      /\ seen \in [Leaves -> Words] /\ \A f \in Leaves : seen[f] \in Values[f] \cup {"none"}
  BY EvPullInAssumption DEF IInv, Shapes, TypeOK
<1>3. /\ evccUp' \in BOOLEAN /\ linked' \in BOOLEAN /\ online' \in BOOLEAN /\ ask' \in Regimes
      /\ upsets' \in 0..MaxUpsets
  <2>1. /\ evccUp' \in {evccUp, TRUE} /\ linked' \in {linked, TRUE, FALSE}
        /\ online' \in {online, evccUp, FALSE} /\ (ask' = ask \/ ask' \in Regimes)
        /\ upsets' = upsets \/ (upsets < MaxUpsets /\ upsets' = upsets + 1)
    BY DEF EvccStarts, AskChanges, StatusArrives, LinkRestored, Rebuild, LeafArrives, ingest
  <2>2. \A x \in 0..MaxUpsets : x < MaxUpsets => x + 1 \in 0..MaxUpsets
    BY <1>2
  <2>3. upsets' \in 0..MaxUpsets
    BY <1>2, <2>1, <2>2
  <2> QED
    BY <1>2, <2>1, <2>3
<1>4. seen' \in [Leaves -> Words] /\ \A f \in Leaves : seen'[f] \in Values[f] \cup {"none"}
  <2>1. CASE seen' = seen
    BY <1>2, <2>1
  <2>2. CASE seen' = Nothing
    <3>1. "none" \in Words
      BY DEF Words
    <3> QED
      BY <2>2, <3>1 DEF Nothing
  <2>3. CASE \E f \in Leaves : seen' = [seen EXCEPT ![f] = car[f]]
    <3>1. car \in [Leaves -> Words] /\ \A f \in Leaves : car[f] \in Values[f]
      BY DEF IInv, Shapes, TypeOK
    <3> QED
      BY <1>2, <2>3, <3>1
  <2> QED
    BY <2>1, <2>2, <2>3 DEF EvccStarts, AskChanges, StatusArrives, LinkRestored, Rebuild,
                            LeafArrives, ingest
<1>5. Shapes'
  BY <1>1, <1>3, <1>4 DEF IInv, Shapes, TypeOK
<1>6. FloorToCome' => FloorToCome
  BY <1>1 DEF FloorToCome
<1> QED
  BY <1>1, <1>5, <1>6, NothingComes DEF IInv

\* The broker goes, with or without the commands in flight.
LEMMA LinkDropsStep ==
  ASSUME IInv, LinkDrops PROVE IInv'
<1>1. /\ upsets < MaxUpsets /\ upsets' = upsets + 1 /\ linked' = FALSE
      /\ wire' \in {wire, <<>>} /\ lost' = (lost \/ wire' # wire)
      /\ UNCHANGED <<car, evccUp, online, seen, ask, slot, stage, next>>
  BY DEF LinkDrops, engine
<1>2. upsets' \in 0..MaxUpsets
  BY <1>1, EvPullInAssumption DEF IInv, Shapes, TypeOK
<1>3. wire' \in Seq(Commands) /\ Len(wire') <= MaxWire
  <2>1. CASE wire' = wire
    BY <2>1 DEF IInv, Shapes, TypeOK
  <2>2. CASE wire' = <<>>
    BY <2>2, EvPullInAssumption
  <2> QED
    BY <1>1, <2>1, <2>2
<1>4. lost \in BOOLEAN /\ lost' \in BOOLEAN
  BY <1>1 DEF IInv, Shapes, TypeOK
<1>5. Shapes'
  BY <1>1, <1>2, <1>3, <1>4 DEF IInv, Shapes, TypeOK
<1>6. FloorToCome' /\ ~lost' => FloorToCome
  BY <1>1 DEF FloorToCome
<1>7. lost => lost'
  BY <1>1
<1> QED
  BY <1>1, <1>5, <1>6, <1>7, NothingComes DEF IInv

\* A claim: what it replaces is remembered before anything else can happen.
LEMMA ClaimStep ==
  ASSUME IInv, Claim PROVE IInv'
<1>1. /\ stage = "idle" /\ Publish(claimFor) /\ stage' = "saving" /\ next' = remember
      /\ lost' = (lost \/ ~evccUp \/ remember.limit = "floor")
      /\ UNCHANGED <<car, evccUp, linked, online, seen, ask, slot, upsets>>
  BY DEF Claim, ingest
<1>2. Shapes
  BY DEF IInv
<1>3. wire' \in Seq(Commands) /\ Len(wire') <= MaxWire
  BY <1>1, <1>2, ClaimCommands, Published
<1>4. next' \in Slots /\ next' # Free
  BY <1>1, <1>2, Remembered
<1>5. lost' \in BOOLEAN
  BY <1>1
<1>6. Shapes'
  BY <1>1, <1>3, <1>4, <1>5 DEF IInv, Shapes, TypeOK
<1>7. UsersOwn'
  BY <1>1 DEF IInv, UsersOwn
<1> QED
  BY <1>1, <1>4, <1>6, <1>7 DEF IInv, HandedBack, LimitIsHeld, Held

\* A hand-back: the limit that was held is the last on its way.
LEMMA ReleaseStep ==
  ASSUME IInv, Release PROVE IInv'
<1>1. /\ stage = "idle" /\ slot # Free /\ Publish(handBack) /\ stage' = "saving"
      /\ next' = Free /\ lost' = (lost \/ ~evccUp)
      /\ UNCHANGED <<car, evccUp, linked, online, seen, ask, slot, upsets>>
  BY DEF Release, ingest
<1>2. Shapes
  BY DEF IInv
<1>3. /\ handBack \in Seq(Commands) /\ 2 \in 1..Len(handBack)
      /\ handBack[2].key = "limit" /\ handBack[2].v = slot.limit
      /\ \A j \in (2 + 1)..Len(handBack) : handBack[j].key # "limit"
  BY <1>1, <1>2, HandBackShape
<1>4. /\ wire' \in Seq(Commands) /\ Len(wire') <= MaxWire
      /\ evccUp => wire' = wire \o handBack
  BY <1>1, <1>2, <1>3, Published
<1>5. Free \in Slots /\ Free.limit = "none" /\ lost' \in BOOLEAN
  BY <1>1 DEF Slots, Free
<1>6. Shapes'
  BY <1>1, <1>4, <1>5 DEF IInv, Shapes, TypeOK
<1>7. UsersOwn'
  BY <1>1, <1>5 DEF IInv, UsersOwn
<1>8. HandedBack'
  <2> SUFFICES ASSUME ~lost' PROVE ~FloorToCome'
    BY DEF HandedBack
  <2>1. ~lost /\ evccUp
    BY <1>1
  <2>2. slot.limit # "floor"
    BY <2>1 DEF IInv, UsersOwn
  <2>3. wire \in Seq(Commands)
    BY <1>2 DEF Shapes, TypeOK
  <2>4. ~Coming(car'.limit, wire \o handBack)
    BY <1>3, <2>2, <2>3, HandBackSettles
  <2>5. FloorToCome' <=> Coming(car'.limit, wire')
    BY DEF FloorToCome, Coming
  <2> QED
    BY <1>4, <2>1, <2>4, <2>5
<1>9. LimitIsHeld'
  BY <1>1 DEF LimitIsHeld, Held
<1> QED
  BY <1>6, <1>7, <1>8, <1>9 DEF IInv

\* Without the broker the slot is kept.
LEMMA ReleaseThrowsStep ==
  ASSUME IInv, ReleaseThrows PROVE IInv'
<1>1. /\ slot # Free /\ stage' = "saving" /\ next' = slot
      /\ UNCHANGED <<car, evccUp, wire, linked, online, seen, ask, slot, lost, upsets>>
  BY DEF ReleaseThrows, ingest
<1>2. Shapes'
  BY <1>1 DEF IInv, Shapes, TypeOK
<1> QED
  BY <1>1, <1>2 DEF IInv, UsersOwn, HandedBack, LimitIsHeld, Held

\* The save frees the slot only when the engine's limit is not to come.
LEMMA SaveStep ==
  ASSUME IInv, Save PROVE IInv'
<1>1. /\ stage = "saving" /\ slot' = next /\ stage' = "idle" /\ next' = Free
      /\ UNCHANGED <<car, evccUp, wire, linked, online, seen, ask, lost, upsets>>
  BY DEF Save, ingest
<1>2. Free \in Slots /\ Free.limit = "none"
  BY DEF Slots, Free
<1>3. Shapes'
  BY <1>1, <1>2 DEF IInv, Shapes, TypeOK
<1>4. UsersOwn'
  BY <1>1, <1>2 DEF IInv, UsersOwn
<1>5. FloorToCome' => FloorToCome
  BY <1>1 DEF FloorToCome
<1>6. HandedBack' /\ LimitIsHeld'
  BY <1>1, <1>5 DEF IInv, HandedBack, LimitIsHeld, Held
<1> QED
  BY <1>3, <1>4, <1>6 DEF IInv

\* A save that throws, or a crash: an unsaved snapshot is lost.
LEMMA UnsavedStep ==
  ASSUME IInv, SaveThrows \/ Crash PROVE IInv'
<1>1. /\ upsets < MaxUpsets /\ upsets' = upsets + 1
      /\ stage' = "idle" /\ next' = Free /\ (lost' \/ (stage # "saving" /\ ~lost))
      /\ lost' \in BOOLEAN
      /\ UNCHANGED <<car, evccUp, wire, ask, slot>>
  BY DEF SaveThrows, Crash, ingest, IInv, Shapes, TypeOK
<1>2. /\ linked' \in BOOLEAN /\ online' \in BOOLEAN /\ seen' \in [Leaves -> Words]
      /\ \A f \in Leaves : seen'[f] \in Values[f] \cup {"none"}
  <2>1. CASE SaveThrows
    BY <2>1 DEF SaveThrows, ingest, IInv, Shapes, TypeOK
  <2>2. CASE Crash
    <3>1. "none" \in Words
      BY DEF Words
    <3>2. linked' = FALSE /\ online' = FALSE /\ seen' = [f \in Leaves |-> "none"]
      BY <2>2 DEF Crash, Nothing
    <3> QED
      BY <3>1, <3>2
  <2> QED
    BY <2>1, <2>2
<1>3. upsets' \in 0..MaxUpsets
  BY <1>1, EvPullInAssumption DEF IInv, Shapes, TypeOK
<1>4. Free \in Slots /\ Free.limit = "none"
  BY DEF Slots, Free
<1>5. Shapes'
  BY <1>1, <1>2, <1>3, <1>4 DEF IInv, Shapes, TypeOK
<1>6. UsersOwn' /\ HandedBack'
  BY <1>1, <1>4 DEF IInv, UsersOwn, HandedBack
<1>7. LimitIsHeld'
  <2>1. FloorToCome' => FloorToCome
    BY <1>1 DEF FloorToCome
  <2> QED
    BY <1>1, <2>1 DEF IInv, LimitIsHeld, Held
<1> QED
  BY <1>5, <1>6, <1>7 DEF IInv

\* Every step keeps the invariant.
LEMMA Inductive ==
  IInv /\ [Next]_vars => IInv'
<1> SUFFICES ASSUME IInv, [Next]_vars PROVE IInv'
  OBVIOUS
<1>1. CASE EvccTakes
  BY <1>1, EvccTakesStep
<1>2. CASE UserEdit
  BY <1>2, UserEditStep
<1>3. CASE EvccStops
  BY <1>3, EvccStopsStep
<1>4. CASE \/ EvccStarts \/ AskChanges \/ StatusArrives \/ LinkRestored \/ Rebuild
           \/ \E f \in Leaves : LeafArrives(f)
  BY <1>4, IngestStep
<1>5. CASE LinkDrops
  BY <1>5, LinkDropsStep
<1>6. CASE Claim
  BY <1>6, ClaimStep
<1>7. CASE Release
  BY <1>7, ReleaseStep
<1>8. CASE ReleaseThrows
  BY <1>8, ReleaseThrowsStep
<1>9. CASE Save
  BY <1>9, SaveStep
<1>10. CASE SaveThrows \/ Crash
  BY <1>10, UnsavedStep
<1>11. CASE UNCHANGED vars
  BY <1>11 DEF vars, IInv, Shapes, TypeOK, UsersOwn, HandedBack, LimitIsHeld, Held, FloorToCome
<1> QED
  BY <1>1, <1>2, <1>3, <1>4, <1>5, <1>6, <1>7, <1>8, <1>9, <1>10, <1>11 DEF Next

\* ev-pull-in.ts, evcc.ts: every variable keeps its type, and no more commands are on
\* their way than the wire holds.
THEOREM TypeCorrect ==
  Spec => []TypeOK
<1>1. IInv => TypeOK
  BY DEF IInv, Shapes
<1> QED
  BY <1>1, InitHolds, Inductive, PTL DEF Spec

(***************************************************************************)
(* applyEvPullIn and releaseLoadpoints: however ticks, late reports, edits *)
(* and outages interleave, EVCC is never left with a boost limit of the    *)
(* engine's that nobody holds the user's for, unless a command, a save or  *)
(* that limit was lost.                                                    *)
(***************************************************************************)
THEOREM LimitIsAlwaysHeld ==
  Spec => []LimitIsHeld
<1>1. IInv => LimitIsHeld
  BY DEF IInv
<1> QED
  BY <1>1, InitHolds, Inductive, PTL DEF Spec
=============================================================================
