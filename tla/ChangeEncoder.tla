---------------------------- MODULE ChangeEncoder ----------------------------
(***************************************************************************)
(* The change-only encoder of apps/server/src/inverter/change-encoder.ts,  *)
(* for one metric (the encoder keeps every metric apart): readings become  *)
(* rows "value held for durMs from time", cut at every bucket boundary.    *)
(*                                                                         *)
(* Time is counted from some epoch in units of which BucketMs and GapMs    *)
(* are multiples.  observed and rows are the record of one stretch of      *)
(* time: both start anew when the clock steps back, or when a reading      *)
(* arrives after close.                                                    *)
(***************************************************************************)
EXTENDS Integers

CONSTANTS
  BucketMs,    \* bucketMs
  GapMs,       \* gapMs
  Deadband,    \* deadbandFor(metric); 0 stands for undefined, "store every change"
  Readings,    \* the values the metric takes
  MaxDelay,    \* bound: the longest time between two readings
  MaxTime,     \* bound: the clock
  MaxSteps     \* bound: how often the clock is set back

ASSUME EncoderAssumption ==
  /\ BucketMs \in Nat \ {0}
  /\ GapMs \in Nat /\ GapMs < BucketMs
  /\ Deadband \in Nat
  /\ Readings \subseteq Int
  /\ MaxDelay \in Nat /\ MaxTime \in Nat /\ MaxSteps \in Nat

VARIABLES
  now,        \* the time of the last reading
  isOpen,     \* whether an interval is open
  startMs,    \* its start
  value,      \* the value it holds: the deadband's reference
  closed,     \* whether close was called after the last reading
  rows,       \* the rows emitted in this stretch of time
  observed,   \* history: the readings of this stretch, by time
  steps       \* clock steps so far

vars == <<now, isOpen, startMs, value, closed, rows, observed, steps>>

Instants == 0..MaxTime
NoReading == [seen |-> FALSE, v |-> 0]
Reading(v) == [seen |-> TRUE, v |-> v]
Unobserved == [t \in Instants |-> NoReading]

TypeOK ==
  /\ now \in Instants
  /\ isOpen \in BOOLEAN
  /\ startMs \in Instants
  /\ value \in Readings \cup {0}
  /\ closed \in BOOLEAN
  /\ rows \subseteq [time : Instants, value : Readings, durMs : 1..BucketMs]
  /\ observed \in [Instants -> {NoReading} \cup {Reading(v) : v \in Readings}]
  /\ steps \in 0..MaxSteps

Init ==
  /\ now = 0
  /\ isOpen = FALSE /\ startMs = 0 /\ value = 0 /\ closed = FALSE
  /\ rows = {} /\ observed = Unobserved /\ steps = 0

-----------------------------------------------------------------------------
\* The end of the bucket that ms is in.
bucketEnd(ms) == (ms \div BucketMs) * BucketMs + BucketMs

\* Mutation: the reference is the last reading instead of the last stored value.
exceedsLastReading(v, reference) ==
  LET last == observed[now] IN
  v # reference /\ (v - last.v >= Deadband \/ last.v - v >= Deadband)

\* Whether a reading differs enough from the stored reference to be worth a row.
exceeds(v, reference) ==
  v # reference /\ (v - reference >= Deadband \/ reference - v >= Deadband)

\* The row an interval from begin holding held becomes when it ends: none when it has no width.
closeAt(begin, held, end) ==
  IF end <= begin THEN {} ELSE {[time |-> begin, value |-> held, durMs |-> end - begin]}

\* The interval open after a step, and the rows of the stretch so far.
Open(begin, held) == isOpen' = TRUE /\ startMs' = begin /\ value' = held

\* Mutation: a gap is held as if the value had been seen throughout.
gapHeld(boundary, at) == FALSE

\* Whether the silence since the boundary is a gap rather than a held value.
isGap(boundary, at) == at - boundary > GapMs

\* Mutation: a flat metric is not carried past its boundary.
carriedToReading(boundary, at) == at

\* Where an interval that outlives its bucket goes on: at the boundary it was cut at.
carriedTo(boundary, at) == boundary

\* What was stored before this reading belongs to the same stretch of time.
Stretch == IF closed THEN [rows |-> {}, observed |-> Unobserved]
                     ELSE [rows |-> rows, observed |-> observed]

(***************************************************************************)
(* observe(metric, at, v).                                                 *)
(***************************************************************************)
Observe(at, v) ==
  /\ at \in now..(now + MaxDelay) /\ at <= MaxTime
  /\ now' = at /\ closed' = FALSE
  /\ observed' = [Stretch.observed EXCEPT ![at] = Reading(v)]
  /\ \/ /\ ~isOpen \/ at < startMs
        /\ Open(at, v) /\ rows' = Stretch.rows
     \/ /\ isOpen /\ at >= startMs
        /\ LET boundary == bucketEnd(startMs)
               crossed == at >= boundary
               cut == IF crossed THEN closeAt(startMs, value, boundary) ELSE {}
               begin == IF crossed THEN carriedTo(boundary, at) ELSE startMs
           IN \/ /\ crossed /\ isGap(boundary, at)
                 /\ Open(at, v) /\ rows' = rows \cup cut
              \/ /\ ~(crossed /\ isGap(boundary, at)) /\ exceeds(v, value)
                 /\ Open(at, v) /\ rows' = rows \cup cut \cup closeAt(begin, value, at)
              \/ /\ ~(crossed /\ isGap(boundary, at)) /\ ~exceeds(v, value)
                 /\ Open(begin, value) /\ rows' = rows \cup cut
  /\ UNCHANGED steps

\* close(at), for this metric: the open interval ends at its bucket's end at the latest.
Close(at) ==
  /\ at \in now..(now + MaxDelay) /\ at <= MaxTime
  /\ isOpen
  /\ isOpen' = FALSE /\ closed' = TRUE
  /\ LET end == bucketEnd(startMs)
     IN rows' = rows \cup closeAt(startMs, value, IF at < end THEN at ELSE end)
  /\ UNCHANGED <<now, startMs, value, observed, steps>>

\* The system clock is set back: later readings carry earlier times.
ClockStep(to) ==
  /\ steps < MaxSteps /\ to < now
  /\ steps' = steps + 1 /\ now' = to
  /\ rows' = {} /\ observed' = Unobserved
  /\ UNCHANGED <<isOpen, startMs, value, closed>>

Next ==
  \/ \E at \in Instants, v \in Readings : Observe(at, v)
  \/ \E at \in Instants : Close(at)
  \/ \E to \in Instants : ClockStep(to)

Spec == Init /\ [][Next]_vars

-----------------------------------------------------------------------------
Within(row, t) == row.time <= t /\ t < row.time + row.durMs

\* The first instant of the next bucket: the time divided into buckets, not the encoder's sum.
EndOfBucket(t) == (t \div BucketMs + 1) * BucketMs

\* The instant is stored: some row covers it, or the open interval will.
Covered(t) == (isOpen /\ startMs <= t) \/ \E row \in rows : Within(row, t)

\* No reading from t on and before u; the readings around an instant.
Silent(t, u) == \A s \in t..(u - 1) : ~observed[s].seen
Consecutive(t, u) == t < u /\ observed[t].seen /\ observed[u].seen /\ Silent(t + 1, u)

\* A reading as close to the stored value as the deadband allows.
Faithful(stored, v) == v = stored \/ (v - stored < Deadband /\ stored - v < Deadband)

(***************************************************************************)
(* "the stored series is never wrong by more than" the deadband: at the    *)
(* instant of every reading, what is stored or being held for that instant *)
(* differs from it by less, however the signal drifted in between.         *)
(***************************************************************************)
ErrorWithinDeadband ==
  \A t \in Instants : observed[t].seen =>
    /\ \A row \in rows : Within(row, t) => Faithful(row.value, observed[t].v)
    /\ isOpen /\ startMs <= t => Faithful(value, observed[t].v)

(***************************************************************************)
(* "No stored interval crosses a bucket boundary" and "the durations in a  *)
(* bucket sum to its width": every row stays in one bucket, no instant is  *)
(* stored twice, and a silence of at most gapMs is a held value: every     *)
(* instant of it is stored, also where it crosses a boundary.              *)
(***************************************************************************)
RowsTileTime ==
  /\ \A row \in rows : row.durMs > 0 /\ row.time + row.durMs <= EndOfBucket(row.time)
  /\ \A row, other \in rows : row # other =>
       row.time + row.durMs <= other.time \/ other.time + other.durMs <= row.time
  /\ isOpen => \A row \in rows : row.time + row.durMs <= startMs
  /\ \A t, u \in Instants : Consecutive(t, u) /\ u - t <= GapMs =>
       \A s \in t..(u - 1) : Covered(s)

(***************************************************************************)
(* "unchanged and unknown must not become the same thing": of a silence    *)
(* that outlasts the bucket by more than gapMs, nothing after the bucket   *)
(* the last reading fell in is stored.                                     *)
(***************************************************************************)
UnknownNotStored ==
  \A t, u \in Instants : Consecutive(t, u) /\ u - EndOfBucket(t) > GapMs =>
    \A s \in EndOfBucket(t)..(u - 1) : ~Covered(s)
=============================================================================
