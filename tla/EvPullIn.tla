------------------------------- MODULE EvPullIn -------------------------------
(***************************************************************************)
(* Borrowing an EVCC loadpoint as a sink (automation/ev-pull-in.ts, the    *)
(* applyEvPullIn step of peak-shaving-engine.ts, and the MQTT ingest of    *)
(* evcc/evcc.ts it sees EVCC through), for one loadpoint: loadpoints share *)
(* only the save that ends the step.                                       *)
(*                                                                         *)
(* EVCC reports each setting on a topic of its own and takes commands from *)
(* the broker without acknowledging them, so what a tick sees and what it  *)
(* commands are both out of date by the time they matter.  EVCC and the    *)
(* broker are external; they do what the ingest's contract notes say.      *)
(***************************************************************************)
EXTENDS Naturals, Sequences

CONSTANTS
  Regimes,      \* what may be asked of the loadpoint
  UserModes,    \* charge modes the user chooses
  UserLimits,   \* boost limits the user chooses
  MaxWire,      \* bound: commands on their way to EVCC
  MaxUpsets     \* bound: edits by the user, crashes, failed saves, outages, rebuilds

ASSUME EvPullInAssumption ==
  /\ "none" \in Regimes /\ Regimes \subseteq {"none", "absorb", "spend-down"}
  /\ UserModes # {} /\ UserModes \subseteq {"off", "pv", "minpv", "now"}
  /\ UserLimits # {} /\ UserLimits \subseteq {"disabled", "own"}
  /\ MaxWire \in Nat /\ MaxUpsets \in Nat

(***************************************************************************)
(* "floor" is the boost limit the engine sets, and no user does;           *)
(* "disabled" is BOOST_LIMIT_DISABLED.                                     *)
(***************************************************************************)
Values == [connected |-> {"true"}, mode |-> {"off", "pv", "minpv", "now"},
           limit |-> {"floor", "disabled", "own"}, boost |-> {"true", "false"}]
Leaves == DOMAIN Values
Command(key, v) == [key |-> key, v |-> v]
Commands == UNION {{Command(f, v) : v \in Values[f]} : f \in Leaves \ {"connected"}}

VARIABLES
  car,      \* EVCC: the loadpoint's settings
  evccUp,   \* EVCC: whether it runs
  wire,     \* published commands EVCC has not taken yet
  linked,   \* connected, of the ingest
  online,   \* evccStatus = "online"
  seen,     \* the loadpoint's topic map
  ask,      \* the regime while pull-in is enabled and the car can take energy, else "none"
  slot,     \* the persisted snapshot of mode and limit, or Free
  stage,    \* "saving" while the step awaits saveState
  next,     \* what it saves
  lost,     \* history: a command, a save or the user's limit was lost
  upsets    \* user edits and upsets so far

vars == <<car, evccUp, wire, linked, online, seen, ask, slot, stage, next, lost, upsets>>
ingest == <<linked, online, seen>>
engine == <<slot, stage, next>>

Free == [mode |-> "none", limit |-> "none"]
Slots == [mode : Values.mode, limit : Values.limit] \cup {Free}
Nothing == [f \in Leaves |-> "none"]

TypeOK ==
  /\ \A f \in Leaves : car[f] \in Values[f] /\ seen[f] \in Values[f] \cup {"none"}
  /\ evccUp \in BOOLEAN
  /\ wire \in Seq(Commands) /\ Len(wire) <= MaxWire
  /\ linked \in BOOLEAN /\ online \in BOOLEAN
  /\ ask \in Regimes
  /\ slot \in Slots /\ next \in Slots
  /\ stage \in {"idle", "saving"}
  /\ lost \in BOOLEAN
  /\ upsets \in 0..MaxUpsets

Init ==
  /\ \E m \in UserModes, l \in UserLimits :
       car = [connected |-> "true", mode |-> m, limit |-> l, boost |-> "false"]
  /\ evccUp = TRUE /\ wire = <<>>
  /\ linked = FALSE /\ online = FALSE /\ seen = Nothing
  /\ ask = "none" /\ slot = Free /\ stage = "idle" /\ next = Free
  /\ lost = FALSE /\ upsets = 0

-----------------------------------------------------------------------------
(* EVCC, the broker and the user.                                          *)

\* A mode change clears the boost, and a boost is only accepted in a PV mode.
Obey(c) ==
  IF c.key = "mode" /\ c.v # car.mode THEN [car EXCEPT !.mode = c.v, !.boost = "false"]
  ELSE IF c.key = "boost" /\ c.v = "true" /\ car.mode \notin {"pv", "minpv"} THEN car
  ELSE [car EXCEPT ![c.key] = c.v]

\* EVCC takes the next command.
EvccTakes ==
  /\ evccUp /\ wire # <<>>
  /\ car' = Obey(Head(wire)) /\ wire' = Tail(wire)
  /\ UNCHANGED <<evccUp, ingest, ask, engine, lost, upsets>>

\* The user changes the mode or the boost limit in EVCC's own interface.
UserEdit ==
  /\ upsets < MaxUpsets /\ evccUp
  /\ upsets' = upsets + 1
  /\ \/ \E m \in UserModes \ {car.mode} : car' = Obey(Command("mode", m))
     \/ \E l \in UserLimits \ {car.limit} : car' = Obey(Command("limit", l))
  /\ UNCHANGED <<evccUp, wire, ingest, ask, engine, lost>>

\* EVCC stops: what was on its way is lost, and so is the boost, which it does not persist.
EvccStops ==
  /\ upsets < MaxUpsets /\ evccUp
  /\ upsets' = upsets + 1
  /\ evccUp' = FALSE /\ car' = [car EXCEPT !.boost = "false"]
  /\ wire' = <<>> /\ lost' = (lost \/ wire # <<>>)
  /\ UNCHANGED <<ingest, ask, engine>>

EvccStarts ==
  /\ ~evccUp
  /\ evccUp' = TRUE
  /\ UNCHANGED <<car, wire, ingest, ask, engine, lost, upsets>>

\* The price regime, the settings or the car's charge change what is asked of the loadpoint.
AskChanges ==
  /\ \E a \in Regimes \ {ask} : ask' = a
  /\ UNCHANGED <<car, evccUp, wire, ingest, engine, lost, upsets>>

-----------------------------------------------------------------------------
(* The ingest.                                                             *)

\* A retained or live leaf topic arrives (handleMessage); EVCC need not be up for a retained one.
LeafArrives(f) ==
  /\ linked /\ seen[f] # car[f]
  /\ seen' = [seen EXCEPT ![f] = car[f]]
  /\ UNCHANGED <<car, evccUp, wire, linked, online, ask, engine, lost, upsets>>

\* EVCC's status topic arrives, its last will included.
StatusArrives ==
  /\ linked /\ online # evccUp
  /\ online' = evccUp
  /\ UNCHANGED <<car, evccUp, wire, linked, seen, ask, engine, lost, upsets>>

LinkRestored ==
  /\ ~linked
  /\ linked' = TRUE
  /\ UNCHANGED <<car, evccUp, wire, online, seen, ask, engine, lost, upsets>>

\* The broker connection drops, with or without the commands in flight.
LinkDrops ==
  /\ upsets < MaxUpsets /\ linked
  /\ upsets' = upsets + 1
  /\ linked' = FALSE
  /\ wire' \in {wire, <<>>} /\ lost' = (lost \/ wire' # wire)
  /\ UNCHANGED <<car, evccUp, online, seen, ask, engine>>

\* Saving the EVCC settings rebuilds the ingest: everything it has seen is forgotten.
Rebuild ==
  /\ upsets < MaxUpsets
  /\ upsets' = upsets + 1
  /\ linked' = FALSE /\ online' = FALSE /\ seen' = Nothing
  /\ UNCHANGED <<car, evccUp, wire, ask, engine, lost>>

-----------------------------------------------------------------------------
(* The pull-in step of a tick.                                             *)

\* The loadpoint is in EVCC's reachable state.
visible == linked /\ online /\ seen # Nothing

\* Plugged in and not charging flat out already; how full the car is, is part of ask.
usable == visible /\ seen.connected = "true" /\ seen.mode # "now"

\* Mutation: publish what is wanted whether or not EVCC reports it already.
differingNot(key, want, have) == <<Command(key, want)>>

\* The command to publish when EVCC reports something else, else none.
differing(key, want, have) == IF want = have THEN <<>> ELSE <<Command(key, want)>>

\* A boost EVCC has not reported reads as off (bool).
boosting == IF seen.boost = "none" THEN "false" ELSE seen.boost

\* desired and claimFor, in publishClaim's order: mode, then limit, then boost.
claimFor ==
  (IF seen.mode \in {"pv", "minpv"} THEN <<>> ELSE differing("mode", "pv", seen.mode))
  \o (IF ask = "spend-down" THEN differing("limit", "floor", seen.limit) ELSE <<>>)
  \o differing("boost", IF ask = "spend-down" THEN "true" ELSE "false", boosting)

\* What to hand back later, with EVCC's own defaults standing in for gaps.
originals ==
  [mode |-> IF seen.mode = "none" THEN "off" ELSE seen.mode,
   limit |-> IF seen.limit = "none" THEN "disabled" ELSE seen.limit]

\* Mutation: every claim remembers what EVCC reports at that moment.
rememberAgain == originals

\* What a claim leaves in the slot: the user's values, once.
remember == IF slot = Free THEN originals ELSE slot

\* The mode goes back too unless someone else has changed it since, as far as EVCC tells.
restoreMode == ~visible \/ seen.mode = "pv"

\* Mutation: the boost limit is left as it is.
handBackBoostOnly ==
  <<Command("boost", "false")>> \o (IF restoreMode THEN <<Command("mode", slot.mode)>> ELSE <<>>)

\* releaseLoadpoints: boost off, then the limit EVCC persists, then the mode.
handBack ==
  <<Command("boost", "false"), Command("limit", slot.limit)>>
  \o (IF restoreMode THEN <<Command("mode", slot.mode)>> ELSE <<>>)

\* link.publish: onto the broker, which has nobody to give it to while EVCC is down.
Publish(commands) ==
  /\ Len(wire) + Len(commands) <= MaxWire
  /\ wire' = IF evccUp THEN wire \o commands ELSE wire

\* applyEvPullIn claims: commands first, then the save of what they replaced.
Claim ==
  /\ stage = "idle"
  /\ ask # "none" /\ usable /\ claimFor # <<>>
  /\ Publish(claimFor)
  /\ stage' = "saving" /\ next' = remember
  /\ lost' = (lost \/ ~evccUp \/ remember.limit = "floor")
  /\ UNCHANGED <<car, evccUp, ingest, ask, slot, upsets>>

\* Mutation: a loadpoint somebody has taken over is left out of the hand-back.
ReleaseUnlessTaken ==
  /\ stage = "idle"
  /\ slot # Free /\ ~(ask # "none" /\ usable) /\ linked /\ restoreMode
  /\ Publish(handBack)
  /\ stage' = "saving" /\ next' = Free /\ lost' = (lost \/ ~evccUp)
  /\ UNCHANGED <<car, evccUp, ingest, ask, slot, upsets>>

\* applyEvPullIn hands a held loadpoint back that is not wanted, or not seen, any more.
Release ==
  /\ stage = "idle"
  /\ slot # Free /\ ~(ask # "none" /\ usable) /\ linked
  /\ Publish(handBack)
  /\ stage' = "saving" /\ next' = Free /\ lost' = (lost \/ ~evccUp)
  /\ UNCHANGED <<car, evccUp, ingest, ask, slot, upsets>>

\* The same while the broker is away: the command throws and the slot is kept.
ReleaseThrows ==
  /\ stage = "idle"
  /\ slot # Free /\ ~linked
  /\ stage' = "saving" /\ next' = slot
  /\ UNCHANGED <<car, evccUp, wire, ingest, ask, slot, lost, upsets>>

Save ==
  /\ stage = "saving"
  /\ slot' = next /\ stage' = "idle" /\ next' = Free
  /\ UNCHANGED <<car, evccUp, wire, ingest, ask, lost, upsets>>

\* saveState throws: the commands are out, the slot is as it was.
SaveThrows ==
  /\ stage = "saving" /\ upsets < MaxUpsets
  /\ upsets' = upsets + 1
  /\ stage' = "idle" /\ next' = Free /\ lost' = TRUE
  /\ UNCHANGED <<car, evccUp, wire, ingest, ask, slot>>

\* The process dies and boots again.
Crash ==
  /\ upsets < MaxUpsets
  /\ upsets' = upsets + 1
  /\ linked' = FALSE /\ online' = FALSE /\ seen' = Nothing
  /\ stage' = "idle" /\ next' = Free /\ lost' = (lost \/ stage = "saving")
  /\ UNCHANGED <<car, evccUp, wire, ask, slot>>

Next ==
  \/ EvccTakes \/ UserEdit \/ EvccStops \/ EvccStarts \/ AskChanges
  \/ \E f \in Leaves : LeafArrives(f)
  \/ StatusArrives \/ LinkRestored \/ LinkDrops \/ Rebuild
  \/ Claim \/ Release \/ ReleaseThrows \/ Save \/ SaveThrows \/ Crash

Spec == Init /\ [][Next]_vars

(***************************************************************************)
(* The loop keeps ticking and its saves settle; topics and commands are    *)
(* delivered while the broker and EVCC are up, and both come back.         *)
(***************************************************************************)
FairSpec ==
  /\ Spec
  /\ WF_vars(Claim) /\ WF_vars(Release) /\ WF_vars(Save)
  /\ WF_vars(EvccTakes) /\ WF_vars(EvccStarts)
  /\ \A f \in Leaves : WF_vars(LeafArrives(f))
  /\ WF_vars(StatusArrives) /\ WF_vars(LinkRestored)

-----------------------------------------------------------------------------
\* The boost limit will be the engine's once EVCC has taken what is on its way.
FloorToCome ==
  \/ car.limit = "floor" /\ \A k \in 1..Len(wire) : wire[k].key # "limit"
  \/ \E k \in 1..Len(wire) :
       /\ wire[k] = Command("limit", "floor")
       /\ \A j \in (k + 1)..Len(wire) : wire[j].key # "limit"

\* The step or the database knows what the user had.
Held == slot # Free \/ (stage = "saving" /\ next # Free)

(***************************************************************************)
(* releaseLoadpoints restores the boost limit "because EVCC persists it":  *)
(* a limit of the engine's is only ever in force, or on its way, while the *)
(* user's is held, unless a command, a save or that limit was lost.        *)
(***************************************************************************)
LimitIsHeld ==
  ~lost => (FloorToCome => Held)

(***************************************************************************)
(* planEvPullIn: "the remembered values stay the user's originals rather   *)
(* than being overwritten": what is held is never replaced by another      *)
(* snapshot, whatever is reported, edited or lost meanwhile.               *)
(***************************************************************************)
OriginalsKept ==
  [][slot # Free /\ slot' # Free => slot' = slot]_vars

\* Its inductive strengthening: a step that saves over a held slot keeps it or frees it.
SavesWhatIsHeld ==
  stage = "saving" /\ slot # Free => next \in {slot, Free}

(***************************************************************************)
(* "Convergence, not commands": once what is asked of a loadpoint stays    *)
(* the same, ticks stop commanding it.                                     *)
(***************************************************************************)
Converges ==
  \A a \in Regimes : <>[](ask = a) => <>[](wire = <<>>)

(***************************************************************************)
(* A loadpoint nothing is asked of any more is eventually let go, through  *)
(* outages, failed saves, crashes and a take-over by the user.             *)
(***************************************************************************)
HandsBack ==
  <>[](ask = "none") => <>[](slot = Free)
=============================================================================
