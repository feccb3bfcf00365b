----------------------------- MODULE StorageProofs -----------------------------
(***************************************************************************)
(* Proofs about the two stages of the storage path: ChangeEncoder, for     *)
(* every bucket width, gap and deadband, any set of readings and any       *)
(* number of clock steps, and HistoryBuffer, for every cap and any number  *)
(* of rows.  Each has a specification of its own over its own variables.   *)
(***************************************************************************)
EXTENDS ChangeEncoder, HistoryBuffer, SequenceTheorems, TLAPS

-----------------------------------------------------------------------------
(* The change encoder *)

\* What an open interval holds was read, and a closed encoder has none.
HoldsAReading == (isOpen => value \in Readings) /\ (closed => ~isOpen)

\* Before the first reading of a stretch, and while the clock is behind the open
\* interval, nothing of the stretch is recorded.
StartsEmpty ==
  (~isOpen /\ ~closed) \/ (isOpen /\ now < startMs) => rows = {} /\ observed = Unobserved

\* The last reading of a stretch was made now.
LastIsNow ==
  \A t \in Instants : observed[t].seen => t <= now /\ observed[now].seen

\* The last reading fell in the bucket of the open interval.
InOpenBucket == isOpen /\ startMs <= now => now < bucketEnd(startMs)

(***************************************************************************)
(* More than RowsTileTime promises, and what the code does: an instant     *)
(* between two readings is stored unless the second comes more than gapMs  *)
(* after the bucket of the first has ended.                                *)
(***************************************************************************)
Tiled ==
  /\ \A row \in rows : row.durMs > 0 /\ row.time + row.durMs <= EndOfBucket(row.time)
  /\ \A row, other \in rows : row # other =>
       row.time + row.durMs <= other.time \/ other.time + other.durMs <= row.time
  /\ isOpen => \A row \in rows : row.time + row.durMs <= startMs
  /\ \A t, u \in Instants : Consecutive(t, u) /\ u - EndOfBucket(t) <= GapMs =>
       \A s \in t..(u - 1) : Covered(s)

(***************************************************************************)
(* The inductive invariant.  A row is cut from the open interval, so what  *)
(* is known of the interval becomes known of the row; that a cut leaves no *)
(* hole and stores nothing of a gap needs the bucket of the last reading.  *)
(***************************************************************************)
Support == TypeOK /\ HoldsAReading /\ StartsEmpty /\ LastIsNow /\ InOpenBucket
IInv == Support /\ ErrorWithinDeadband /\ Tiled /\ UnknownNotStored

-----------------------------------------------------------------------------
(* Buckets *)

\* An instant lies in the bucket whose end is computed for it.
LEMMA InOwnBucket ==
  ASSUME NEW t \in Nat
  PROVE  /\ bucketEnd(t) \in Nat /\ EndOfBucket(t) = bucketEnd(t)
         /\ t < bucketEnd(t) /\ bucketEnd(t) <= t + BucketMs
BY EncoderAssumption DEF bucketEnd, EndOfBucket

\* A quotient is determined by the multiples around the dividend.
LEMMA Quotient ==
  ASSUME NEW t \in Nat, NEW k \in Nat, k * BucketMs <= t, t < k * BucketMs + BucketMs
  PROVE  t \div BucketMs = k
BY EncoderAssumption

\* An instant before the end of another's bucket, and not before it, shares the bucket.
LEMMA SameBucket ==
  ASSUME NEW s \in Nat, NEW t \in Nat, s <= t, t < bucketEnd(s)
  PROVE  bucketEnd(t) = bucketEnd(s)
<1>1. s \div BucketMs \in Nat /\ (s \div BucketMs) * BucketMs <= s
  BY EncoderAssumption
<1>2. t \div BucketMs = s \div BucketMs
  BY <1>1, Quotient, EncoderAssumption DEF bucketEnd
<1> QED
  BY <1>2 DEF bucketEnd

\* The boundary begins a bucket of full width.
LEMMA NextBucket ==
  ASSUME NEW s \in Nat
  PROVE  bucketEnd(bucketEnd(s)) = bucketEnd(s) + BucketMs
<1> DEFINE k == s \div BucketMs + 1
<1>1. k \in Nat /\ bucketEnd(s) = k * BucketMs
  BY EncoderAssumption DEF bucketEnd
<1> HIDE DEF k
<1>2. bucketEnd(s) \in Nat
  BY InOwnBucket
<1>3. bucketEnd(s) \div BucketMs = k
  BY <1>1, <1>2, Quotient, EncoderAssumption
<1> QED
  BY <1>1, <1>3 DEF bucketEnd

-----------------------------------------------------------------------------
(* What a reading does to an open interval *)

\* The rows an open interval is cut into by a reading at the time at.
Pieces(N, at) ==
  /\ N \subseteq [time : Instants, value : Readings, durMs : 1..BucketMs]
  /\ \A n \in N : /\ startMs <= n.time /\ n.value = value
                  /\ n.time + n.durMs <= startMs'
                  /\ n.time + n.durMs <= bucketEnd(n.time)
  /\ \A n, o \in N : n # o => n.time + n.durMs <= o.time \/ o.time + o.durMs <= n.time

\* Instants of the interval that the pieces or the interval open afterwards store.
Kept(N, s) == startMs' <= s \/ \E n \in N : Within(n, s)

\* A reading within an open interval: it becomes pieces and an interval that is
\* open in the reading's bucket; everything up to the reading is kept, or, across
\* a gap, exactly what lies in the interval's own bucket.
LEMMA CutInterval ==
  ASSUME Support, NEW at \in Instants, NEW v \in Readings, Observe(at, v),
         isOpen, startMs <= at
  PROVE  /\ isOpen' /\ startMs' \in Instants /\ value' \in Readings
         /\ startMs <= startMs' /\ startMs' <= at /\ at < bucketEnd(startMs')
         /\ (startMs' = at /\ value' = v) \/ (value' = value /\ Faithful(value, v))
         /\ \E N : /\ rows' = rows \cup N /\ Pieces(N, at)
                   /\ at - bucketEnd(startMs) <= GapMs => \A s \in startMs..(at - 1) : Kept(N, s)
                   /\ at - bucketEnd(startMs) > GapMs =>
                        /\ startMs' = at
                        /\ \A s \in startMs..(at - 1) : Kept(N, s) <=> s < bucketEnd(startMs)
<1> DEFINE boundary == bucketEnd(startMs)
           first == [time |-> startMs, value |-> value, durMs |-> boundary - startMs]
<1>1. startMs \in Nat /\ at \in Nat /\ value \in Readings /\ BucketMs \in Nat /\ BucketMs > 0
      /\ GapMs \in Nat /\ GapMs < BucketMs /\ Deadband \in Nat /\ value \in Int /\ v \in Int
      /\ at <= MaxTime /\ startMs <= MaxTime /\ MaxTime \in Nat
  BY EncoderAssumption DEF Support, TypeOK, HoldsAReading, Instants
<1>2. /\ boundary \in Nat /\ startMs < boundary /\ boundary <= startMs + BucketMs
      /\ bucketEnd(boundary) = boundary + BucketMs
      /\ bucketEnd(at) \in Nat /\ at < bucketEnd(at)
  BY <1>1, InOwnBucket, NextBucket
<1>3. first.time = startMs /\ first.value = value /\ first.durMs = boundary - startMs
  OBVIOUS
<1>4. closeAt(startMs, value, boundary) = {first}
  BY <1>1, <1>2 DEF closeAt
<1> HIDE DEF boundary
<1>5. CASE at >= boundary /\ isGap(boundary, at)
  <2>1. isOpen' /\ startMs' = at /\ value' = v /\ rows' = rows \cup {first}
    BY <1>5, <1>4, <1>1 DEF Observe, Open, boundary
  <2>2. at - boundary > GapMs
    BY <1>5 DEF isGap
  <2>3. Pieces({first}, at)
    BY <1>1, <1>2, <2>1, <1>5 DEF Pieces, Instants, boundary
  <2>4. \A s \in startMs..(at - 1) : Kept({first}, s) <=> s < boundary
    BY <1>1, <1>2, <2>1 DEF Kept, Within
  <2> QED
    BY <1>1, <1>2, <2>1, <2>2, <2>3, <2>4 DEF boundary
<1>6. CASE at >= boundary /\ ~isGap(boundary, at) /\ exceeds(v, value)
  <2> DEFINE second == closeAt(boundary, value, at)
             N == {first} \cup second
  <2>1. isOpen' /\ startMs' = at /\ value' = v /\ rows' = rows \cup N
    BY <1>6, <1>4, <1>1 DEF Observe, Open, boundary, carriedTo
  <2>2. at - boundary <= GapMs
    BY <1>6, <1>1, <1>2 DEF isGap
  <2>3. \A n \in second : n = [time |-> boundary, value |-> value, durMs |-> at - boundary]
                           /\ at > boundary
    BY <1>1, <1>2 DEF closeAt
  <2>4. at > boundary => [time |-> boundary, value |-> value, durMs |-> at - boundary] \in second
    BY <1>1, <1>2 DEF closeAt
  <2> HIDE DEF second
  <2>5. Pieces(N, at)
    <3>1. first \in [time : Instants, value : Readings, durMs : 1..BucketMs]
      BY <1>1, <1>2, <1>6 DEF Instants
    <3>2. \A n \in second : n \in [time : Instants, value : Readings, durMs : 1..BucketMs]
      BY <1>1, <1>2, <2>3, <2>2 DEF Instants
    <3>3. first.time + first.durMs = boundary
      BY <1>1, <1>2, <1>3
    <3>4. \A n \in second : n.time = boundary /\ n.value = value /\ n.time + n.durMs = at
      BY <1>1, <1>2, <2>3
    <3>5. \A n, o \in second : n = o
      BY <2>3
    <3> HIDE DEF first
    <3>6. \A n, o \in N : n # o => n.time + n.durMs <= o.time \/ o.time + o.durMs <= n.time
      BY <1>1, <1>2, <1>3, <3>3, <3>4, <3>5, <1>6
    <3>7. \A n \in N : /\ startMs <= n.time /\ n.value = value
                       /\ n.time + n.durMs <= at /\ n.time + n.durMs <= bucketEnd(n.time)
      BY <1>1, <1>2, <1>3, <2>2, <3>3, <3>4, <1>6 DEF boundary
    <3> QED
      BY <3>1, <3>2, <3>6, <3>7, <2>1 DEF Pieces
  <2>6. ASSUME NEW s \in startMs..(at - 1) PROVE Kept(N, s)
    <3>1. CASE s < boundary
      <4>1. Within(first, s)
        BY <1>1, <1>2, <3>1 DEF Within
      <4> QED
        BY <4>1 DEF Kept
    <3>2. CASE boundary <= s
      <4> DEFINE n == [time |-> boundary, value |-> value, durMs |-> at - boundary]
      <4>1. n \in second /\ Within(n, s)
        BY <1>1, <1>2, <3>2, <2>4 DEF Within
      <4> QED
        BY <4>1 DEF Kept
    <3> QED
      BY <1>1, <1>2, <3>1, <3>2
  <2> HIDE DEF N
  <2> QED
    BY <1>1, <1>2, <2>1, <2>2, <2>5, <2>6 DEF boundary
<1>7. CASE at >= boundary /\ ~isGap(boundary, at) /\ ~exceeds(v, value)
  <2>1. isOpen' /\ startMs' = boundary /\ value' = value /\ rows' = rows \cup {first}
    BY <1>7, <1>4, <1>1 DEF Observe, Open, boundary, carriedTo
  <2>2. at - boundary <= GapMs
    BY <1>7, <1>1, <1>2 DEF isGap
  <2>3. Pieces({first}, at)
    BY <1>1, <1>2, <2>1, <1>7 DEF Pieces, Instants, boundary
  <2>4. \A s \in startMs..(at - 1) : Kept({first}, s)
    BY <1>1, <1>2, <2>1 DEF Kept, Within
  <2>5. Faithful(value, v)
    BY <1>7, <1>1 DEF exceeds, Faithful
  <2> QED
    BY <1>1, <1>2, <1>7, <2>1, <2>2, <2>3, <2>4, <2>5 DEF boundary, Instants
<1>8. CASE at < boundary /\ exceeds(v, value)
  <2> DEFINE N == closeAt(startMs, value, at)
  <2>1. isOpen' /\ startMs' = at /\ value' = v /\ rows' = rows \cup N
    BY <1>8, <1>1, <1>2 DEF Observe, Open, boundary
  <2>3. \A n \in N : n = [time |-> startMs, value |-> value, durMs |-> at - startMs] /\ at > startMs
    BY <1>1 DEF closeAt
  <2>4. at > startMs => [time |-> startMs, value |-> value, durMs |-> at - startMs] \in N
    BY <1>1 DEF closeAt
  <2> HIDE DEF N
  <2>5. Pieces(N, at)
    BY <1>1, <1>2, <1>8, <2>1, <2>3 DEF Pieces, Instants, boundary
  <2>6. \A s \in startMs..(at - 1) : Kept(N, s)
    BY <1>1, <2>4 DEF Kept, Within
  <2> QED
    BY <1>1, <1>2, <1>8, <2>1, <2>5, <2>6 DEF boundary
<1>9. CASE at < boundary /\ ~exceeds(v, value)
  <2>0. ~(at >= boundary)
    BY <1>9, <1>1, <1>2
  <2>1. isOpen' /\ startMs' = startMs /\ value' = value /\ rows' = rows \cup {}
    <3>1. isOpen /\ ~(~isOpen \/ at < startMs)
      BY <1>1
    <3>2. Open(IF at >= boundary THEN carriedTo(boundary, at) ELSE startMs, value)
          /\ rows' = rows \cup (IF at >= boundary THEN closeAt(startMs, value, boundary) ELSE {})
      BY <2>0, <1>9, <3>1, Zenon DEF Observe, boundary
    <3> QED
      BY <2>0, <3>2, Zenon DEF Open
  <2>2. Pieces({}, at) /\ \A s \in startMs..(at - 1) : Kept({}, s)
    BY <1>1, <2>1 DEF Pieces, Kept
  <2>3. Faithful(value, v)
    BY <1>9, <1>1 DEF exceeds, Faithful
  <2> QED
    BY <1>1, <1>2, <1>9, <2>1, <2>2, <2>3 DEF boundary, Instants
<1> QED
  BY <1>1, <1>2, <1>5, <1>6, <1>7, <1>8, <1>9

-----------------------------------------------------------------------------
(* The steps *)

\* The reading that opens a stretch, or reopens the encoder, is all there is of it.
LEMMA FirstReading ==
  ASSUME Support, NEW at \in Instants, NEW v \in Readings, Observe(at, v),
         ~isOpen \/ at < startMs
  PROVE  /\ isOpen' /\ startMs' = at /\ value' = v /\ rows' = {} /\ now' = at /\ ~closed'
         /\ steps' = steps
         /\ observed' = [Unobserved EXCEPT ![at] = Reading(v)]
<1>1. now \in Int /\ at \in Int /\ startMs \in Int /\ now <= at /\ isOpen \in BOOLEAN
      /\ MaxDelay \in Int
  BY EncoderAssumption DEF Support, TypeOK, Instants, Observe
<1>2. Stretch.rows = {} /\ Stretch.observed = Unobserved
  BY <1>1 DEF Support, StartsEmpty, Stretch
<1>3. ~(isOpen /\ at >= startMs)
  BY <1>1
<1> QED
  BY <1>2, <1>3, Zenon DEF Observe, Open

\* A reading keeps the interval, the record and the clock in step.
LEMMA ObserveSupport ==
  ASSUME Support, NEW at \in Instants, NEW v \in Readings, Observe(at, v)
  PROVE  Support'
<1>1. now \in Int /\ at \in Int /\ startMs \in Int /\ now <= at /\ now' = at /\ ~closed'
      /\ steps' = steps /\ isOpen \in BOOLEAN
  BY EncoderAssumption DEF Support, TypeOK, Instants, Observe
<1>0. isOpen' \in BOOLEAN /\ closed' \in BOOLEAN
  BY Zenon DEF Observe, Open
<1>2. CASE ~isOpen \/ at < startMs
  <2>1. observed' = [t \in Instants |-> IF t = at THEN Reading(v) ELSE NoReading]
    BY <1>2, FirstReading DEF Unobserved
  <2>2. TypeOK'
    <3>1. observed' \in [Instants -> {NoReading} \cup {Reading(w) : w \in Readings}]
      BY <2>1
    <3>2. isOpen' /\ now' \in Instants /\ startMs' \in Instants /\ value' \in Readings /\ rows' = {}
      BY <1>1, <1>2, FirstReading
    <3> QED
      BY <1>0, <1>1, <3>1, <3>2 DEF Support, TypeOK
  <2>3. HoldsAReading' /\ StartsEmpty'
    BY <1>1, <1>2, FirstReading DEF HoldsAReading, StartsEmpty
  <2>4. LastIsNow'
    BY <1>1, <2>1 DEF LastIsNow, Reading, NoReading, Instants
  <2>5. InOpenBucket'
    BY <1>1, <1>2, FirstReading, InOwnBucket DEF InOpenBucket, Instants
  <2> QED
    BY <2>2, <2>3, <2>4, <2>5 DEF Support
<1>3. CASE isOpen /\ startMs <= at
  <2>1. ~closed /\ observed' = [observed EXCEPT ![at] = Reading(v)]
    BY <1>3 DEF Support, HoldsAReading, Observe, Stretch
  <2>2. TypeOK'
    <3>1. isOpen' /\ startMs' \in Instants /\ value' \in Readings
      BY <1>3, CutInterval
    <3>2. rows' \subseteq [time : Instants, value : Readings, durMs : 1..BucketMs]
      <4>1. PICK N : rows' = rows \cup N /\ Pieces(N, at)
        BY <1>3, CutInterval
      <4> QED
        BY <4>1 DEF Pieces, Support, TypeOK
    <3>3. observed' \in [Instants -> {NoReading} \cup {Reading(w) : w \in Readings}]
      BY <2>1 DEF Support, TypeOK
    <3> QED
      BY <1>0, <1>1, <3>1, <3>2, <3>3 DEF Support, TypeOK
  <2>3. HoldsAReading' /\ StartsEmpty' /\ InOpenBucket'
    BY <1>1, <1>3, CutInterval DEF HoldsAReading, StartsEmpty, InOpenBucket, Instants
  <2>4. LastIsNow'
    BY <1>1, <2>1 DEF Support, TypeOK, LastIsNow, Reading, Instants
  <2> QED
    BY <2>2, <2>3, <2>4 DEF Support
<1> QED
  BY <1>1, <1>2, <1>3

\* After a first reading no other instant has one, so there is nothing to compare it with.
LEMMA FirstKeeps ==
  ASSUME Support, NEW at \in Instants, NEW v \in Readings, Observe(at, v),
         ~isOpen \/ at < startMs
  PROVE  ErrorWithinDeadband' /\ Tiled' /\ UnknownNotStored'
<1>1. at \in Int /\ isOpen' /\ startMs' = at /\ value' = v /\ rows' = {}
  BY EncoderAssumption, FirstReading DEF Instants
<1>2. observed' = [t \in Instants |-> IF t = at THEN Reading(v) ELSE NoReading]
  BY FirstReading DEF Unobserved
<1>3. \A t \in Instants : observed'[t].seen => t = at /\ observed'[t].v = v
  BY <1>2 DEF Reading, NoReading
<1>4. ErrorWithinDeadband'
  BY <1>1, <1>3 DEF ErrorWithinDeadband, Faithful
<1>5. \A t, u \in Instants : ~Consecutive(t, u)'
  BY <1>1, <1>3, EncoderAssumption DEF Consecutive, Instants
<1>6. Tiled' /\ UnknownNotStored'
  BY <1>1, <1>5 DEF Tiled, UnknownNotStored
<1> QED
  BY <1>4, <1>6

\* Two consecutive readings after a step were so before, or are the last one and the new one,
\* and then the open interval reaches back to the bucket of the last one.
LEMMA Pairs ==
  ASSUME Support, NEW at \in Instants, NEW v \in Readings, Observe(at, v),
         isOpen, startMs <= at, NEW t \in Instants, NEW u \in Instants, Consecutive(t, u)'
  PROVE  \/ Consecutive(t, u) /\ u <= now
         \/ /\ t = now /\ u = at /\ now < at /\ startMs <= now
            /\ EndOfBucket(t) = bucketEnd(startMs) /\ now < bucketEnd(startMs)
<1>1. now \in Nat /\ at \in Nat /\ startMs \in Nat /\ now <= at /\ t \in Nat /\ u \in Nat
      /\ now \in Instants /\ isOpen \in BOOLEAN
  BY EncoderAssumption DEF Support, TypeOK, Instants, Observe
<1>2. observed' = [observed EXCEPT ![at] = Reading(v)] /\ DOMAIN observed = Instants
  BY DEF Support, TypeOK, HoldsAReading, Observe, Stretch
<1>3. \A s \in Instants : s # at => observed'[s] = observed[s]
  BY <1>2
<1>4. \A s \in Instants : observed[s].seen => s <= now /\ observed[now].seen
  BY DEF Support, LastIsNow
<1>5. t < u /\ observed'[t].seen /\ observed'[u].seen
      /\ \A s \in (t + 1)..(u - 1) : ~observed'[s].seen
  BY DEF Consecutive, Silent
<1>6. t # at /\ observed[t].seen /\ t <= now /\ observed[now].seen
  BY <1>1, <1>3, <1>4, <1>5
<1>7. CASE u # at \/ now = at
  <2>1. observed[u].seen /\ u <= now
    BY <1>1, <1>3, <1>4, <1>5, <1>6, <1>7
  <2>2. \A s \in (t + 1)..(u - 1) : s # at /\ s \in Instants
    BY <1>1, <2>1, EncoderAssumption DEF Instants
  <2> QED
    BY <1>3, <1>5, <1>6, <2>1, <2>2 DEF Consecutive, Silent
<1>8. CASE u = at /\ now < at
  <2>1. t = now
    BY <1>1, <1>3, <1>5, <1>6, <1>8
  <2>2. ~(now < startMs)
    <3>1. ASSUME now < startMs PROVE FALSE
      <4>1. observed = Unobserved
        BY <3>1 DEF Support, StartsEmpty
      <4> QED
        BY <4>1, <1>1, <1>6 DEF Unobserved, NoReading
    <3> QED
      BY <3>1
  <2>3. startMs <= now /\ now < bucketEnd(startMs)
    BY <1>1, <2>2 DEF Support, InOpenBucket
  <2> QED
    BY <1>1, <1>8, <2>1, <2>3, InOwnBucket, SameBucket
<1> QED
  BY <1>1, <1>7, <1>8

\* A reading within an open interval.
LEMMA CutKeeps ==
  ASSUME IInv, NEW at \in Instants, NEW v \in Readings, Observe(at, v), isOpen, startMs <= at
  PROVE  ErrorWithinDeadband' /\ Tiled' /\ UnknownNotStored'
<1> DEFINE Rows == [time : Instants, value : Readings, durMs : 1..BucketMs]
<1>0. Support
  BY DEF IInv
<1>1. now \in Nat /\ at \in Nat /\ startMs \in Nat /\ now <= at /\ rows \subseteq Rows
      /\ Instants \subseteq Nat /\ BucketMs \in Nat /\ GapMs \in Nat
  BY <1>0, EncoderAssumption DEF Support, TypeOK, Instants, Observe
<1>2. /\ isOpen' /\ startMs' \in Instants
      /\ startMs <= startMs' /\ startMs' <= at
      /\ (startMs' = at /\ value' = v) \/ (value' = value /\ Faithful(value, v))
  BY <1>0, CutInterval
<1>3. PICK N : /\ rows' = rows \cup N /\ Pieces(N, at)
               /\ at - bucketEnd(startMs) <= GapMs => \A s \in startMs..(at - 1) : Kept(N, s)
               /\ at - bucketEnd(startMs) > GapMs =>
                    /\ startMs' = at
                    /\ \A s \in startMs..(at - 1) : Kept(N, s) <=> s < bucketEnd(startMs)
  BY <1>0, CutInterval
<1>4. /\ N \subseteq Rows
      /\ \A n \in N : /\ startMs <= n.time /\ n.value = value
                      /\ n.time + n.durMs <= startMs'
                      /\ n.time + n.durMs <= bucketEnd(n.time)
      /\ \A n, o \in N : n # o => n.time + n.durMs <= o.time \/ o.time + o.durMs <= n.time
  BY <1>3 DEF Pieces
<1>5. \A row \in Rows : row.time \in Nat /\ row.durMs \in Nat /\ row.durMs > 0
  <2>1. \A row \in Rows : row.time \in Instants /\ row.durMs \in 1..BucketMs
    OBVIOUS
  <2>2. Instants \subseteq Nat /\ \A d \in 1..BucketMs : d \in Nat /\ d > 0
    BY <1>1
  <2> HIDE DEF Rows
  <2> QED
    BY <2>1, <2>2
<1>6. \A row \in rows : row.time + row.durMs <= startMs
  BY DEF IInv, Tiled
<1>7. bucketEnd(startMs) \in Nat
  BY <1>1, InOwnBucket
<1> HIDE DEF Rows
<1>8. ErrorWithinDeadband'
  <2> SUFFICES ASSUME NEW t \in Instants, observed'[t].seen
               PROVE  /\ \A row \in rows' : Within(row, t) => Faithful(row.value, observed'[t].v)
                      /\ startMs' <= t => Faithful(value', observed'[t].v)
    BY DEF ErrorWithinDeadband, Faithful
  <2>1. observed' = [observed EXCEPT ![at] = Reading(v)] /\ DOMAIN observed = Instants
    BY <1>0 DEF Support, TypeOK, HoldsAReading, Observe, Stretch
  <2>2. CASE t = at
    <3>1. observed'[t].v = v
      BY <2>1, <2>2 DEF Reading
    <3>2. \A row \in rows' : ~Within(row, t)
      BY <1>1, <1>2, <1>3, <1>4, <1>5, <1>6, <2>2 DEF Within
    <3> QED
      BY <1>2, <3>1, <3>2 DEF Faithful
  <2>3. CASE t # at
    <3>1. observed'[t] = observed[t] /\ observed[t].seen /\ t < at
      <4>1. observed'[t] = observed[t]
        BY <2>1, <2>3
      <4>2. observed[t].seen /\ t \in Nat
        BY <4>1, <1>1
      <4>3. t <= now
        BY <4>2, <1>0 DEF Support, LastIsNow
      <4> QED
        BY <4>1, <4>2, <4>3, <1>1, <2>3
    <3>2. /\ \A row \in rows : Within(row, t) => Faithful(row.value, observed[t].v)
          /\ startMs <= t => Faithful(value, observed[t].v)
      BY <3>1 DEF IInv, ErrorWithinDeadband
    <3>3. \A row \in N : Within(row, t) => startMs <= t /\ row.value = value
      BY <1>1, <1>4, <1>5 DEF Within
    <3>4. startMs' <= t => startMs <= t /\ value' = value
      BY <1>1, <1>2, <3>1
    <3> QED
      BY <1>3, <3>1, <3>2, <3>3, <3>4
  <2> QED
    BY <2>2, <2>3
<1>9. Tiled'
  <2>1. \A row \in rows' : row.durMs > 0 /\ row.time + row.durMs <= EndOfBucket(row.time)
    <3>1. \A row \in rows : row.durMs > 0 /\ row.time + row.durMs <= EndOfBucket(row.time)
      BY DEF IInv, Tiled
    <3>2. \A n \in N : n.durMs > 0 /\ EndOfBucket(n.time) = bucketEnd(n.time)
      BY <1>4, <1>5, InOwnBucket
    <3> QED
      BY <1>3, <1>4, <3>1, <3>2
  <2>2. \A row, other \in rows' : row # other =>
          row.time + row.durMs <= other.time \/ other.time + other.durMs <= row.time
    <3>1. \A row, other \in rows : row # other =>
            row.time + row.durMs <= other.time \/ other.time + other.durMs <= row.time
      BY DEF IInv, Tiled
    <3>2. \A row \in rows, n \in N : row.time + row.durMs <= n.time
      BY <1>1, <1>4, <1>5, <1>6
    <3> QED
      BY <1>3, <1>4, <3>1, <3>2
  <2>3. \A row \in rows' : row.time + row.durMs <= startMs'
    BY <1>1, <1>2, <1>3, <1>4, <1>5, <1>6
  <2>4. ASSUME NEW t \in Instants, NEW u \in Instants, Consecutive(t, u)',
               u - EndOfBucket(t) <= GapMs, NEW s \in t..(u - 1)
        PROVE  Covered(s)'
    <3>1. CASE Consecutive(t, u) /\ u <= now
      <4>1. Covered(s)
        BY <2>4, <3>1 DEF IInv, Tiled
      <4>2. CASE \E row \in rows : Within(row, s)
        BY <1>3, <4>2 DEF Covered, Within
      <4>3. CASE startMs <= s
        <5>1. now < bucketEnd(startMs)
          BY <1>0, <1>1, <3>1, <4>3 DEF Support, InOpenBucket
        <5>2. Kept(N, s)
          BY <1>1, <1>3, <1>7, <3>1, <4>3, <5>1
        <5> QED
          BY <1>2, <1>3, <5>2 DEF Kept, Covered, Within
      <4> QED
        BY <4>1, <4>2, <4>3 DEF Covered
    <3>2. CASE t = now /\ u = at /\ startMs <= now /\ EndOfBucket(t) = bucketEnd(startMs)
      <4>1. Kept(N, s)
        BY <1>1, <1>3, <1>7, <2>4, <3>2
      <4> QED
        BY <1>2, <1>3, <4>1 DEF Kept, Covered, Within
    <3> QED
      BY <1>0, <2>4, <3>1, <3>2, Pairs
  <2> QED
    BY <2>1, <2>2, <2>3, <2>4 DEF Tiled, EndOfBucket
<1>10. UnknownNotStored'
  <2>1. ASSUME NEW t \in Instants, NEW u \in Instants, Consecutive(t, u)',
               u - EndOfBucket(t) > GapMs, NEW s \in EndOfBucket(t)..(u - 1)
        PROVE  ~Covered(s)'
    <3>0. EndOfBucket(t) \in Nat /\ s \in Nat /\ t \in Nat /\ u \in Nat
      BY <1>1, InOwnBucket
    <3>1. CASE Consecutive(t, u) /\ u <= now
      <4>1. ~Covered(s)
        BY <2>1, <3>1 DEF IInv, UnknownNotStored
      <4>2. s < startMs /\ \A row \in rows : ~Within(row, s)
        BY <4>1, <3>0, <1>1 DEF Covered
      <4>3. \A n \in N : ~Within(n, s)
        BY <1>1, <1>4, <1>5, <3>0, <4>2 DEF Within
      <4> QED
        BY <1>1, <1>2, <1>3, <3>0, <4>2, <4>3 DEF Covered, Within
    <3>2. CASE t = now /\ u = at /\ startMs <= now /\ EndOfBucket(t) = bucketEnd(startMs)
               /\ now < bucketEnd(startMs)
      <4>1. startMs' = at /\ ~Kept(N, s)
        BY <1>1, <1>3, <1>7, <2>1, <3>0, <3>2
      <4>2. \A row \in rows : ~Within(row, s)
        BY <1>1, <1>5, <1>6, <1>7, <3>0, <3>2 DEF Within
      <4> QED
        BY <1>3, <4>1, <4>2 DEF Kept, Covered, Within
    <3> QED
      BY <1>0, <2>1, <3>1, <3>2, Pairs
  <2> QED
    BY <2>1 DEF UnknownNotStored, EndOfBucket
<1> QED
  BY <1>8, <1>9, <1>10

\* close stores of the open interval what lies before the time of the call and in its bucket.
LEMMA CloseKeeps ==
  ASSUME IInv, NEW at \in Instants, Close(at)
  PROVE  IInv'
<1> DEFINE Rows == [time : Instants, value : Readings, durMs : 1..BucketMs]
           end == IF at < bucketEnd(startMs) THEN at ELSE bucketEnd(startMs)
           N == closeAt(startMs, value, end)
           last == [time |-> startMs, value |-> value, durMs |-> end - startMs]
<1>0. Support /\ isOpen
  BY DEF IInv, Close
<1>1. now \in Nat /\ at \in Nat /\ startMs \in Nat /\ now <= at /\ value \in Readings
      /\ startMs \in Instants /\ BucketMs \in Nat /\ GapMs \in Nat
  BY <1>0, EncoderAssumption DEF Support, TypeOK, HoldsAReading, Instants, Close
<1>2. /\ bucketEnd(startMs) \in Nat /\ bucketEnd(startMs) <= startMs + BucketMs
      /\ EndOfBucket(startMs) = bucketEnd(startMs)
  BY <1>1, InOwnBucket
<1>3. end \in Nat /\ end <= bucketEnd(startMs) /\ end <= at
      /\ (startMs <= now => now <= end)
  BY <1>0, <1>1, <1>2 DEF Support, InOpenBucket
<1>4. /\ isOpen' = FALSE /\ closed' = TRUE /\ rows' = rows \cup N
      /\ now' = now /\ startMs' = startMs /\ value' = value /\ observed' = observed
      /\ steps' = steps
  BY DEF Close
<1> HIDE DEF end
<1>5. \A n \in N : n = last /\ startMs < end
  BY <1>1, <1>3 DEF closeAt
<1>6. startMs < end => last \in N
  BY <1>1, <1>3 DEF closeAt
<1>7. last.time = startMs /\ last.value = value /\ last.durMs = end - startMs
  OBVIOUS
<1>8. startMs < end => last \in Rows
  BY <1>1, <1>2, <1>3
<1> HIDE DEF N, last
<1>9. \A row \in rows : row.time + row.durMs <= startMs
  BY <1>0 DEF IInv, Tiled
<1>10. Support'
  <2>1. TypeOK'
    BY <1>0, <1>4, <1>5, <1>8 DEF Support, TypeOK
  <2> QED
    BY <1>0, <1>4, <2>1 DEF Support, HoldsAReading, StartsEmpty, LastIsNow, InOpenBucket
<1>11. ErrorWithinDeadband'
  <2> SUFFICES ASSUME NEW t \in Instants, observed[t].seen, NEW row \in rows', Within(row, t)
               PROVE  Faithful(row.value, observed[t].v)
    BY <1>4 DEF ErrorWithinDeadband, Faithful, Within
  <2>1. CASE row \in rows
    BY <2>1 DEF IInv, ErrorWithinDeadband
  <2>2. CASE row \in N
    BY <1>0, <1>5, <1>7, <2>2 DEF IInv, ErrorWithinDeadband, Within
  <2> QED
    BY <1>4, <2>1, <2>2
<1>12. Tiled'
  <2>1. \A row \in rows' : row.durMs > 0 /\ row.time + row.durMs <= EndOfBucket(row.time)
    <3>1. \A row \in rows : row.durMs > 0 /\ row.time + row.durMs <= EndOfBucket(row.time)
      BY DEF IInv, Tiled
    <3> QED
      BY <1>1, <1>2, <1>3, <1>4, <1>5, <1>7, <3>1
  <2>2. \A row, other \in rows' : row # other =>
          row.time + row.durMs <= other.time \/ other.time + other.durMs <= row.time
    <3>1. \A row, other \in rows : row # other =>
            row.time + row.durMs <= other.time \/ other.time + other.durMs <= row.time
      BY DEF IInv, Tiled
    <3>2. \A row \in rows, n \in N : row.time + row.durMs <= n.time
      BY <1>5, <1>7, <1>9
    <3> QED
      BY <1>4, <1>5, <3>1, <3>2
  <2>3. ASSUME NEW t \in Instants, NEW u \in Instants, Consecutive(t, u),
               u - EndOfBucket(t) <= GapMs, NEW s \in t..(u - 1)
        PROVE  \E row \in rows' : Within(row, s)
    <3>1. Covered(s)
      BY <2>3 DEF IInv, Tiled
    <3>2. u <= now
      BY <1>0, <2>3 DEF Support, LastIsNow, Consecutive
    <3>3. CASE startMs <= s
      <4>1. startMs < end /\ Within(last, s)
        BY <1>1, <1>3, <1>7, <3>2, <3>3, EncoderAssumption DEF Within, Instants
      <4> QED
        BY <1>4, <1>6, <4>1
    <3> QED
      BY <1>4, <3>1, <3>3 DEF Covered
  <2>4. \A t, u \in Instants : Consecutive(t, u)' = Consecutive(t, u)
    BY <1>4 DEF Consecutive, Silent
  <2>5. \A s : (\E row \in rows' : Within(row, s)) => Covered(s)'
    BY DEF Covered, Within
  <2> QED
    BY <1>4, <2>1, <2>2, <2>3, <2>4, <2>5 DEF Tiled, EndOfBucket
<1>13. UnknownNotStored'
  <2>1. ASSUME NEW t \in Instants, NEW u \in Instants, Consecutive(t, u)',
               u - EndOfBucket(t) > GapMs, NEW s \in EndOfBucket(t)..(u - 1)
        PROVE  ~Covered(s)'
    <3>1. Consecutive(t, u)
      BY <1>4, <2>1 DEF Consecutive, Silent
    <3>2. ~Covered(s)
      BY <2>1, <3>1 DEF IInv, UnknownNotStored
    <3>3. \A n \in N : Within(n, s) => startMs <= s
      BY <1>5, <1>7 DEF Within
    <3> QED
      BY <1>0, <1>4, <3>2, <3>3 DEF Covered, Within
  <2> QED
    BY <2>1 DEF UnknownNotStored, EndOfBucket
<1> QED
  BY <1>10, <1>11, <1>12, <1>13 DEF IInv

\* A clock that is set back starts an empty stretch.
LEMMA ClockStepKeeps ==
  ASSUME IInv, NEW to \in Instants, ClockStep(to)
  PROVE  IInv'
<1>1. /\ now' = to /\ rows' = {} /\ observed' = Unobserved /\ to < now
      /\ isOpen' = isOpen /\ startMs' = startMs /\ value' = value /\ closed' = closed
      /\ steps < MaxSteps /\ steps' = steps + 1
  BY DEF ClockStep
<1>2. Support /\ now \in Nat /\ to \in Nat /\ startMs \in Nat
  BY EncoderAssumption DEF IInv, Support, TypeOK, Instants
<1>3. \A t \in Instants : ~observed'[t].seen
  BY <1>1 DEF Unobserved, NoReading
<1>4. TypeOK'
  BY <1>1, <1>2, EncoderAssumption DEF Support, TypeOK, Unobserved
<1>5. HoldsAReading' /\ StartsEmpty' /\ LastIsNow'
  BY <1>1, <1>2, <1>3 DEF Support, HoldsAReading, StartsEmpty, LastIsNow
<1>6. InOpenBucket'
  BY <1>1, <1>2, InOwnBucket DEF Support, InOpenBucket, bucketEnd
<1>7. ErrorWithinDeadband'
  BY <1>3 DEF ErrorWithinDeadband
<1>8. \A t, u \in Instants : ~Consecutive(t, u)'
  BY <1>3 DEF Consecutive
<1>9. Tiled' /\ UnknownNotStored'
  BY <1>1, <1>8 DEF Tiled, UnknownNotStored
<1> QED
  BY <1>4, <1>5, <1>6, <1>7, <1>9 DEF IInv, Support

\* The invariant holds of a new encoder and every call keeps it.
LEMMA Inductive == Spec => []IInv
<1>1. Init => IInv
  <2> SUFFICES ASSUME Init PROVE IInv
    OBVIOUS
  <2>1. \A t \in Instants : ~observed[t].seen
    BY DEF Init, Unobserved, NoReading
  <2>2. TypeOK
    <3>1. observed \in [Instants -> {NoReading} \cup {Reading(v) : v \in Readings}]
      BY DEF Init, Unobserved
    <3>2. 0 \in Instants /\ 0 \in 0..MaxSteps
      BY EncoderAssumption DEF Instants
    <3> QED
      BY <3>1, <3>2 DEF Init, TypeOK
  <2>3. HoldsAReading /\ StartsEmpty /\ LastIsNow /\ InOpenBucket
    BY <2>1 DEF Init, HoldsAReading, StartsEmpty, LastIsNow, InOpenBucket
  <2>4. ErrorWithinDeadband /\ Tiled /\ UnknownNotStored
    BY <2>1 DEF Init, ErrorWithinDeadband, Tiled, UnknownNotStored, Consecutive
  <2> QED
    BY <2>2, <2>3, <2>4 DEF IInv, Support
<1>2. IInv /\ [Next]_vars => IInv'
  <2> SUFFICES ASSUME IInv, [Next]_vars PROVE IInv'
    OBVIOUS
  <2>1. ASSUME NEW at \in Instants, NEW v \in Readings, Observe(at, v) PROVE IInv'
    <3>1. Support /\ now \in Int /\ at \in Int /\ startMs \in Int /\ isOpen \in BOOLEAN
      BY EncoderAssumption DEF IInv, Support, TypeOK, Instants
    <3>2. Support'
      BY <2>1, <3>1, ObserveSupport
    <3>3. CASE ~isOpen \/ at < startMs
      BY <2>1, <3>1, <3>2, <3>3, FirstKeeps DEF IInv
    <3>4. CASE isOpen /\ startMs <= at
      BY <2>1, <3>1, <3>2, <3>4, CutKeeps DEF IInv
    <3> QED
      BY <3>1, <3>3, <3>4
  <2>2. ASSUME NEW at \in Instants, Close(at) PROVE IInv'
    BY <2>2, CloseKeeps
  <2>3. ASSUME NEW to \in Instants, ClockStep(to) PROVE IInv'
    BY <2>3, ClockStepKeeps
  <2>4. CASE UNCHANGED vars
    BY <2>4 DEF vars, IInv, Support, TypeOK, HoldsAReading, StartsEmpty, LastIsNow, InOpenBucket,
       ErrorWithinDeadband, Tiled, UnknownNotStored, Consecutive, Silent, Covered, Within,
       Faithful, EndOfBucket, bucketEnd
  <2> QED
    BY <2>1, <2>2, <2>3, <2>4 DEF Next
<1> QED
  BY <1>1, <1>2, PTL DEF Spec

\* Every row has a duration between one and a bucket, and the state keeps its types.
THEOREM EncoderTypeCorrect == Spec => []TypeOK
BY Inductive, PTL DEF IInv, Support

(***************************************************************************)
(* "the stored series is never wrong by more than" the deadband (observe): *)
(* whatever way readings drift, at each reading's time the stored or held  *)
(* value is the reading itself or differs from it by less than the         *)
(* deadband.                                                               *)
(***************************************************************************)
THEOREM StoredWithinDeadband == Spec => []ErrorWithinDeadband
BY Inductive, PTL DEF IInv

\* A silence of at most gapMs ends within gapMs of the end of the bucket it began in.
LEMMA TiledCoversHeld == Tiled => RowsTileTime
<1> SUFFICES ASSUME Tiled, NEW t \in Instants, NEW u \in Instants, Consecutive(t, u), u - t <= GapMs
             PROVE  u - EndOfBucket(t) <= GapMs
  BY DEF Tiled, RowsTileTime
<1>1. t \in Nat /\ u \in Nat
  BY EncoderAssumption DEF Instants
<1>2. EndOfBucket(t) \in Nat /\ t < EndOfBucket(t)
  BY <1>1, InOwnBucket
<1> QED
  BY <1>1, <1>2, EncoderAssumption

(***************************************************************************)
(* observe and close cut an interval into rows that stay in their buckets  *)
(* and never overlap, and a silence of at most gapMs is stored in full,    *)
(* also where it crosses a boundary or the value changes at its end.       *)
(***************************************************************************)
THEOREM BucketsAreTiled == Spec => []RowsTileTime
BY Inductive, TiledCoversHeld, PTL DEF IInv

(***************************************************************************)
(* A reading after a gap closes the old interval at its boundary: nothing  *)
(* of the unobserved time after that bucket is ever stored as a value.     *)
(***************************************************************************)
THEOREM GapsStayUnknown == Spec => []UnknownNotStored
BY Inductive, PTL DEF IInv

-----------------------------------------------------------------------------
(* The history buffer *)

\* s is the newest Len(s) of e rows, in the order of enqueue.
Newest(s, e) == /\ s \in Seq(Nat) /\ Len(s) <= e
                /\ \A i \in 1..Len(s) : s[i] = e - Len(s) + i

\* Every one of the oldest k rows is in the database or counted as dropped.
Settled(k) == \A row \in 1..k : row \in stored \cup dropped

(***************************************************************************)
(* The inductive invariant of NothingLost: it adds that the rows are       *)
(* numbers and that a batch exists only while its commit is outstanding.   *)
(***************************************************************************)
BufferInv ==
  /\ enqueued \in Nat /\ pending \in Seq(Nat) /\ batch \in Seq(Nat)
  /\ flushing \in BOOLEAN /\ (~flushing => batch = <<>>)
  /\ Newest(Requeued, enqueued)
  /\ Settled(enqueued - Len(Requeued))

\* The inductive invariant implies the property.
LEMMA BufferInvImplies == BufferInv => NothingLost
BY DEF BufferInv, NothingLost, InOrder, Newest, Settled

\* Appending the next n rows to the newest rows gives the newest rows.
LEMMA AppendNewest ==
  ASSUME NEW e \in Nat, NEW n \in Nat, NEW s, Newest(s, e)
  PROVE  LET t == [i \in 1..n |-> e + i] IN
         t \in Seq(Nat) /\ Len(s \o t) = Len(s) + n /\ Newest(s \o t, e + n)
<1> DEFINE t == [i \in 1..n |-> e + i]
<1>1. t \in Seq(Nat) /\ Len(t) = n /\ \A i \in 1..n : t[i] = e + i
  OBVIOUS
<1>2. s \in Seq(Nat) /\ Len(s) \in Nat /\ Len(s) <= e
      /\ \A i \in 1..Len(s) : s[i] = e - Len(s) + i
  BY DEF Newest
<1> HIDE DEF t
<1>3. /\ s \o t \in Seq(Nat) /\ Len(s \o t) = Len(s) + n
      /\ \A i \in 1..(Len(s) + n) :
           (s \o t)[i] = IF i <= Len(s) THEN s[i] ELSE t[i - Len(s)]
  BY <1>1, <1>2, ConcatProperties
<1>4. ASSUME NEW i \in 1..(Len(s) + n) PROVE (s \o t)[i] = e + n - (Len(s) + n) + i
  <2>1. CASE i <= Len(s)
    <3>1. i \in 1..Len(s)
      BY <1>2, <2>1
    <3>2. (s \o t)[i] = e - Len(s) + i
      BY <1>2, <1>3, <2>1, <3>1
    <3>3. QED
      BY <1>2, <3>2
  <2>2. CASE i > Len(s)
    <3>1. i - Len(s) \in 1..n
      BY <1>2, <2>2
    <3>2. (s \o t)[i] = e + (i - Len(s))
      BY <1>1, <1>2, <1>3, <2>2, <3>1
    <3>3. QED
      BY <1>2, <3>2
  <2>3. i <= Len(s) \/ i > Len(s)
    BY <1>2
  <2>4. QED
    BY <2>1, <2>2, <2>3
<1>5. Newest(s \o t, e + n)
  BY <1>2, <1>3, <1>4 DEF Newest
<1>6. QED
  BY <1>1, <1>3, <1>5 DEF t

\* A suffix of the newest rows is the newest rows.
LEMMA SuffixNewest ==
  ASSUME NEW e \in Nat, NEW s, Newest(s, e), NEW k \in 0..Len(s)
  PROVE  /\ Len(SubSeq(s, Len(s) - k + 1, Len(s))) = k
         /\ Newest(SubSeq(s, Len(s) - k + 1, Len(s)), e)
<1> DEFINE u == SubSeq(s, Len(s) - k + 1, Len(s))
<1>1. s \in Seq(Nat) /\ Len(s) \in Nat /\ k \in Nat /\ k <= Len(s) /\ Len(s) <= e
      /\ \A i \in 1..Len(s) : s[i] = e - Len(s) + i
  BY DEF Newest
<1>2. Len(s) - k + 1 \in Int /\ Len(s) \in Int
      /\ \A i \in (Len(s) - k + 1)..Len(s) : s[i] \in Nat
  BY <1>1
<1>3. /\ u \in Seq(Nat)
      /\ Len(u) = IF Len(s) - k + 1 <= Len(s) THEN Len(s) - (Len(s) - k + 1) + 1 ELSE 0
      /\ \A i \in 1..(Len(s) - (Len(s) - k + 1) + 1) : u[i] = s[Len(s) - k + 1 + i - 1]
  BY <1>2, SubSeqProperties
<1> HIDE DEF u
<1>4. Len(u) = k
  BY <1>1, <1>3
<1>5. ASSUME NEW i \in 1..k PROVE u[i] = e - k + i
  <2>1. i \in 1..(Len(s) - (Len(s) - k + 1) + 1) /\ Len(s) - k + i \in 1..Len(s)
        /\ Len(s) - k + 1 + i - 1 = Len(s) - k + i
    BY <1>1
  <2>2. u[i] = s[Len(s) - k + i]
    BY <1>3, <2>1
  <2>3. s[Len(s) - k + i] = e - Len(s) + (Len(s) - k + i)
    BY <1>1, <2>1
  <2>4. QED
    BY <1>1, <2>2, <2>3
<1>6. Newest(u, e)
  <2>1. u \in Seq(Nat)
    BY <1>3
  <2>2. k <= e
    BY <1>1
  <2>3. QED
    BY <1>4, <1>5, <2>1, <2>2 DEF Newest
<1>7. QED
  BY <1>4, <1>6, Zenon DEF u

\* Splitting the newest rows: the front are the rows just before the back.
LEMMA SplitNewest ==
  ASSUME NEW e \in Nat, NEW s \in Seq(Nat), NEW t \in Seq(Nat), Newest(s \o t, e)
  PROVE  /\ Newest(t, e) /\ Len(s \o t) = Len(s) + Len(t) /\ Len(s) + Len(t) <= e
         /\ \A row \in 1..(e - Len(t)) : row <= e - Len(s \o t) \/ row \in Range(s)
<1>1. /\ Len(s \o t) = Len(s) + Len(t) /\ Len(s) \in Nat /\ Len(t) \in Nat
      /\ \A i \in 1..(Len(s) + Len(t)) :
           (s \o t)[i] = IF i <= Len(s) THEN s[i] ELSE t[i - Len(s)]
  BY ConcatProperties
<1>2. /\ Len(s) + Len(t) <= e
      /\ \A i \in 1..(Len(s) + Len(t)) : (s \o t)[i] = e - (Len(s) + Len(t)) + i
  BY <1>1 DEF Newest
<1>3. ASSUME NEW j \in 1..Len(t) PROVE t[j] = e - Len(t) + j
  <2>1. Len(s) + j \in 1..(Len(s) + Len(t)) /\ ~(Len(s) + j <= Len(s)) /\ Len(s) + j - Len(s) = j
    BY <1>1
  <2>2. (s \o t)[Len(s) + j] = t[j]
    BY <1>1, <2>1
  <2>3. (s \o t)[Len(s) + j] = e - (Len(s) + Len(t)) + (Len(s) + j)
    BY <1>2, <2>1
  <2>4. QED
    BY <1>1, <2>2, <2>3
<1>4. ASSUME NEW row \in 1..(e - Len(t)), ~(row <= e - Len(s \o t)) PROVE row \in Range(s)
  <2> DEFINE i == row - (e - (Len(s) + Len(t)))
  <2>1. i \in 1..Len(s) /\ i \in 1..(Len(s) + Len(t)) /\ e - (Len(s) + Len(t)) + i = row
    BY <1>1, <1>2, <1>4
  <2> HIDE DEF i
  <2>2. (s \o t)[i] = s[i]
    BY <1>1, <2>1
  <2>3. (s \o t)[i] = row
    BY <1>2, <2>1
  <2>4. QED
    BY <2>1, <2>2, <2>3 DEF Range
<1>5. Newest(t, e)
  <2>1. Len(t) <= e
    BY <1>1, <1>2
  <2>2. QED
    BY <1>3, <2>1 DEF Newest
<1>6. QED
  BY <1>1, <1>2, <1>4, <1>5

\* The concatenation of three sequences of rows.
LEMMA ConcatRows ==
  \A s, t, u \in Seq(Nat) : (s \o t) \o u = s \o (t \o u)
BY ConcatAssociative, SMT

\* An empty buffer satisfies it.
LEMMA BufferInvInit == BufferInit => BufferInv
<1> SUFFICES ASSUME BufferInit PROVE BufferInv
  OBVIOUS
<1>1. Requeued = <<>> /\ enqueued = 0 /\ <<>> \in Seq(Nat)
  BY ConcatEmptySeq DEF BufferInit, Requeued
<1>2. Newest(Requeued, enqueued) /\ Settled(enqueued - Len(Requeued))
  BY <1>1 DEF Newest, Settled
<1>3. enqueued \in Nat /\ pending \in Seq(Nat) /\ batch = <<>> /\ batch \in Seq(Nat)
  BY <1>1 DEF BufferInit
<1>4. flushing \in BOOLEAN
  BY Zenon DEF BufferInit
<1>5. QED
  BY <1>2, <1>3, <1>4, Zenon DEF BufferInv

\* enqueue, with or without its eager flush, keeps it.
LEMMA EnqueueStep ==
  ASSUME BufferInv, NEW n \in 1..MaxEnqueue, Enqueue(n)
  PROVE  BufferInv'
<1> DEFINE queue == pending \o Arriving(n)
<1>1. n \in Nat /\ enqueued \in Nat /\ enqueued' = enqueued + n /\ Newest(Requeued, enqueued)
      /\ pending \in Seq(Nat) /\ batch \in Seq(Nat)
  BY BufferAssumption DEF BufferInv, Enqueue
<1>2. /\ Arriving(n) \in Seq(Nat) /\ Len(Requeued \o Arriving(n)) = Len(Requeued) + n
      /\ Newest(Requeued \o Arriving(n), enqueued + n)
  BY <1>1, AppendNewest DEF Arriving
<1>3. queue \in Seq(Nat)
  BY <1>1, <1>2, ConcatProperties
<1> HIDE DEF queue
<1>4. Requeued \o Arriving(n) = batch \o queue
  <2>1. (batch \o pending) \o Arriving(n) = batch \o (pending \o Arriving(n))
    <3>1. batch \in Seq(Nat) /\ pending \in Seq(Nat) /\ Arriving(n) \in Seq(Nat)
      BY <1>1, <1>2
    <3>2. QED
      BY <3>1, ConcatRows, Zenon
  <2>2. QED
    BY <2>1, Zenon DEF Requeued, queue
<1>5. /\ batch' \o pending' = batch \o queue /\ batch' \in Seq(Nat) /\ pending' \in Seq(Nat)
      /\ flushing' \in BOOLEAN /\ (~flushing' => batch' = <<>>)
  <2>1. CASE ~flushing /\ Len(queue) >= MaxPending
    <3>1. batch = <<>> /\ batch' = queue /\ pending' = <<>> /\ flushing' = TRUE
      BY <2>1 DEF Enqueue, BufferInv, queue
    <3>2. queue \o <<>> = queue /\ <<>> \o queue = queue /\ <<>> \in Seq(Nat)
      BY <1>3, ConcatEmptySeq
    <3>3. QED
      BY <1>3, <3>1, <3>2
  <2>2. CASE ~(~flushing /\ Len(queue) >= MaxPending)
    BY <1>1, <1>3, <2>2 DEF Enqueue, BufferInv, queue
  <2>3. QED
    BY <2>1, <2>2
<1>6. Requeued' = Requeued \o Arriving(n)
  BY <1>4, <1>5 DEF Requeued
<1>7. Settled(enqueued - Len(Requeued))'
  <2>1. Len(Requeued) \in Nat
    BY <1>1 DEF Newest
  <2>2. Len(Requeued') = Len(Requeued) + n
    BY <1>2, <1>6
  <2>3. enqueued' - Len(Requeued') = enqueued - Len(Requeued)
    BY <1>1, <2>1, <2>2
  <2>4. QED
    BY <2>3 DEF Settled, BufferInv, Enqueue
<1>8. QED
  BY <1>1, <1>2, <1>5, <1>6, <1>7 DEF BufferInv

\* flush only moves the buffered queue into the outstanding batch.
LEMMA FlushStep == ASSUME BufferInv, Flush PROVE BufferInv'
<1>1. /\ batch = <<>> /\ batch' = pending /\ pending' = <<>> /\ flushing' = TRUE
      /\ pending \in Seq(Nat) /\ UNCHANGED <<enqueued, stored, dropped>>
  BY DEF BufferInv, Flush
<1>2. Requeued' = pending /\ Requeued = pending /\ <<>> \in Seq(Nat)
  BY <1>1, ConcatEmptySeq DEF Requeued
<1>3. QED
  BY <1>1, <1>2 DEF BufferInv, Newest, Settled

(***************************************************************************)
(* After a commit settles, the rows left are the newest ones, and every    *)
(* row before them was committed, dropped, or settled earlier.             *)
(***************************************************************************)
LEMMA CommitStep == ASSUME BufferInv, CommitOk \/ CommitFails PROVE BufferInv'
<1>1. /\ enqueued \in Nat /\ enqueued' = enqueued /\ batch' = <<>> /\ flushing' = FALSE
      /\ batch \in Seq(Nat) /\ pending \in Seq(Nat) /\ stored \subseteq stored'
      /\ dropped \subseteq dropped' /\ Newest(Requeued, enqueued)
  BY DEF BufferInv, CommitOk, CommitFails
<1>2. /\ Newest(pending, enqueued) /\ Len(Requeued) = Len(batch) + Len(pending)
      /\ Len(batch) \in Nat /\ Len(pending) \in Nat /\ Len(Requeued) <= enqueued
      /\ \A row \in 1..(enqueued - Len(pending)) :
           row <= enqueued - Len(Requeued) \/ row \in Range(batch)
  BY <1>1, SplitNewest DEF Requeued
<1>3. \A row \in 1..(enqueued - Len(Requeued)) : row \in stored' \cup dropped'
  BY <1>1 DEF BufferInv, Settled
<1>4. /\ pending' \in Seq(Nat) /\ Newest(pending', enqueued)
      /\ \A row \in 1..(enqueued - Len(pending')) : row \in stored' \cup dropped'
  <2>1. CASE CommitOk
    <3>1. pending' = pending /\ stored' = stored \cup Range(batch)
      BY <2>1 DEF CommitOk
    <3>2. ASSUME NEW row \in 1..(enqueued - Len(pending)) PROVE row \in stored' \cup dropped'
      <4>1. CASE row <= enqueued - Len(Requeued)
        <5>1. row \in 1..(enqueued - Len(Requeued))
          BY <1>1, <1>2, <4>1
        <5>2. QED
          BY <1>3, <5>1
      <4>2. CASE row \in Range(batch)
        BY <3>1, <4>2
      <4>3. QED
        BY <1>2, <4>1, <4>2
    <3>3. QED
      BY <1>1, <1>2, <3>1, <3>2
  <2>2. CASE CommitFails /\ ~(Len(Requeued) > MaxPending)
    <3>1. pending' = Requeued
      BY <2>2 DEF CommitFails
    <3>2. QED
      BY <1>1, <1>3, <3>1 DEF Newest
  <2>3. CASE CommitFails /\ Len(Requeued) > MaxPending
    <3>1. /\ pending' = Trimmed(Requeued)
          /\ dropped' = dropped \cup (Range(Requeued) \ Range(Trimmed(Requeued)))
      BY <2>3 DEF CommitFails
    <3>2. MaxPending \in 0..Len(Requeued)
      BY <1>2, <2>3, BufferAssumption
    <3>3. Len(pending') = MaxPending /\ Newest(pending', enqueued)
      BY <1>1, <3>1, <3>2, SuffixNewest DEF Trimmed
    <3>4. ASSUME NEW row \in 1..(enqueued - MaxPending) PROVE row \in stored' \cup dropped'
      <4>1. CASE row <= enqueued - Len(Requeued)
        <5>1. row \in 1..(enqueued - Len(Requeued))
          BY <1>1, <1>2, <4>1
        <5>2. QED
          BY <1>3, <5>1
      <4>2. CASE row > enqueued - Len(Requeued)
        <5> DEFINE i == row - (enqueued - Len(Requeued))
        <5>1. i \in 1..Len(Requeued) /\ enqueued - Len(Requeued) + i = row
          BY <1>1, <1>2, <3>2, <4>2
        <5> HIDE DEF i
        <5>2. Requeued[i] = row
          BY <1>1, <5>1 DEF Newest
        <5>3. row \in Range(Requeued)
          BY <1>1, <5>1, <5>2 DEF Range, Newest
        <5>4. ASSUME NEW j \in DOMAIN pending' PROVE pending'[j] # row
          <6>1. j \in 1..MaxPending
            BY <3>3, <5>4 DEF Newest
          <6>2. pending'[j] = enqueued - MaxPending + j
            BY <3>3, <6>1 DEF Newest
          <6>3. QED
            BY <1>1, <3>2, <6>1, <6>2, BufferAssumption
        <5>5. row \notin Range(Trimmed(Requeued))
          BY <3>1, <5>4 DEF Range
        <5>6. QED
          BY <3>1, <5>3, <5>5
      <4>3. QED
        BY <1>1, <1>2, <4>1, <4>2
    <3>5. QED
      BY <3>3, <3>4 DEF Newest
  <2>4. QED
    BY <2>1, <2>2, <2>3
<1>5. Requeued' = pending'
  BY <1>1, <1>4, ConcatEmptySeq DEF Requeued
<1>6. Newest(Requeued, enqueued)' /\ Settled(enqueued - Len(Requeued))'
  BY <1>1, <1>4, <1>5 DEF Newest, Settled
<1>7. batch' \in Seq(Nat)
  BY <1>1
<1>8. QED
  BY <1>1, <1>4, <1>6, <1>7, Zenon DEF BufferInv

\* The inductive invariant, for every behaviour.
LEMMA BufferInvAlways == BufferSpec => []BufferInv
<1>1. BufferInv /\ [BufferNext]_bufferVars => BufferInv'
  <2> SUFFICES ASSUME BufferInv, [BufferNext]_bufferVars PROVE BufferInv'
    OBVIOUS
  <2>1. CASE UNCHANGED bufferVars
    BY <2>1 DEF bufferVars, BufferInv, Requeued, Newest, Settled
  <2>2. QED
    BY <2>1, EnqueueStep, FlushStep, CommitStep DEF BufferNext
<1>2. QED
  BY <1>1, BufferInvInit, PTL DEF BufferSpec

(***************************************************************************)
(* Whatever the cap, however many rows and however often a commit fails or *)
(* half-succeeds: every row enqueued is stored, counted as dropped, or     *)
(* still queued in order (enqueue and flush of createHistoryBuffer).       *)
(***************************************************************************)
THEOREM NothingEverLost == BufferSpec => []NothingLost
BY BufferInvAlways, BufferInvImplies, PTL

-----------------------------------------------------------------------------
\* The newest rows are rows that were enqueued.
LEMMA NewestRange ==
  ASSUME NEW e \in Nat, NEW s, Newest(s, e)
  PROVE  Range(s) \subseteq 1..e
<1>1. s \in Seq(Nat) /\ Len(s) \in Nat /\ Len(s) <= e
      /\ \A i \in 1..Len(s) : s[i] = e - Len(s) + i
  BY DEF Newest
<1>2. ASSUME NEW i \in DOMAIN s PROVE s[i] \in 1..e
  <2>1. i \in 1..Len(s)
    BY <1>1, <1>2
  <2>2. QED
    BY <1>1, <2>1
<1>3. QED
  BY <1>2 DEF Range

\* The rows a batch or the buffer holds were enqueued.
LEMMA BatchRange == ASSUME BufferInv PROVE Range(batch) \subseteq 1..enqueued
<1>1. /\ batch \in Seq(Nat) /\ pending \in Seq(Nat) /\ enqueued \in Nat
      /\ Newest(Requeued, enqueued)
  BY DEF BufferInv
<1>2. Range(Requeued) \subseteq 1..enqueued
  BY <1>1, NewestRange
<1>3. Range(batch) \subseteq Range(Requeued)
  <2>1. ASSUME NEW i \in DOMAIN batch PROVE batch[i] \in Range(Requeued)
    <3>1. /\ i \in 1..Len(batch) /\ Len(batch) \in Nat /\ Len(pending) \in Nat
          /\ Requeued \in Seq(Nat) /\ Len(Requeued) = Len(batch) + Len(pending)
      BY <1>1, <2>1, ConcatProperties DEF Requeued
    <3>2. i \in 1..Len(Requeued) /\ i <= Len(batch)
      BY <3>1
    <3>3. Requeued[i] = batch[i]
      BY <1>1, <3>1, <3>2, ConcatProperties DEF Requeued
    <3>4. QED
      BY <3>1, <3>2, <3>3 DEF Range
  <2>2. QED
    BY <2>1 DEF Range
<1>4. QED
  BY <1>2, <1>3

\* What a failed commit gives up are rows that maxPending newer ones followed.
LEMMA TrimRange ==
  ASSUME BufferInv, Len(Requeued) > MaxPending
  PROVE  \A row \in Range(Requeued) \ Range(Trimmed(Requeued)) :
           row \in Nat \ {0} /\ row + MaxPending <= enqueued
<1>1. /\ enqueued \in Nat /\ Newest(Requeued, enqueued) /\ Requeued \in Seq(Nat)
      /\ Len(Requeued) \in Nat /\ MaxPending \in Nat /\ MaxPending \in 0..Len(Requeued)
  BY BufferAssumption DEF BufferInv, Newest
<1>2. /\ Len(Trimmed(Requeued)) = MaxPending /\ Newest(Trimmed(Requeued), enqueued)
  BY <1>1, SuffixNewest DEF Trimmed
<1>3. ASSUME NEW row \in Range(Requeued), ~(row + MaxPending <= enqueued)
      PROVE  row \in Range(Trimmed(Requeued))
  <2>1. row \in 1..enqueued
    BY <1>1, NewestRange
  <2> DEFINE i == row - (enqueued - MaxPending)
  <2>2. i \in 1..MaxPending /\ enqueued - MaxPending + i = row
    BY <1>1, <1>3, <2>1
  <2> HIDE DEF i
  <2>3. Trimmed(Requeued)[i] = row /\ i \in DOMAIN Trimmed(Requeued)
    BY <1>2, <2>2 DEF Newest
  <2>4. QED
    BY <2>3 DEF Range
<1>4. Range(Requeued) \subseteq 1..enqueued
  BY <1>1, NewestRange
<1>5. QED
  BY <1>1, <1>3, <1>4

(***************************************************************************)
(* Whatever the cap and the failures, the buffer keeps the promise of the  *)
(* ledger: only enqueued rows are stored, none is unstored, and a failed   *)
(* commit gives up only rows that maxPending newer ones followed.          *)
(***************************************************************************)
THEOREM BufferImplementsLedger == BufferSpec => ImplementsLedger
<1>1. BufferInit => L!Init
  BY DEF BufferInit, L!Init
<1>2. BufferInv /\ [BufferNext]_bufferVars => [L!Next]_(L!ledger)
  <2> SUFFICES ASSUME BufferInv, [BufferNext]_bufferVars PROVE [L!Next]_(L!ledger)
    OBVIOUS
  <2>1. enqueued \in Nat /\ MaxPending \in Nat
    BY BufferAssumption DEF BufferInv
  <2>2. CASE UNCHANGED bufferVars
    BY <2>2 DEF bufferVars, L!ledger
  <2>3. ASSUME NEW n \in 1..MaxEnqueue, Enqueue(n) PROVE L!Accept
    BY <2>1, <2>3, BufferAssumption DEF Enqueue, L!Accept
  <2>4. CASE Flush
    BY <2>4 DEF Flush, L!ledger
  <2>5. CASE CommitOk
    <3>1. /\ enqueued' = enqueued /\ stored' = stored \cup Range(batch) /\ dropped' = dropped
      BY <2>5 DEF CommitOk
    <3>2. L!Settle
      BY <3>1, BatchRange DEF L!Settle
    <3>3. QED
      BY <3>2 DEF L!Next
  <2>6. CASE CommitFails
    <3>1. enqueued' = enqueued /\ stored \subseteq stored' /\ stored' \subseteq stored \cup 1..enqueued
      BY <2>6, BatchRange DEF CommitFails
    <3>2. CASE Len(Requeued) > MaxPending
      <4>1. dropped' = dropped \cup (Range(Requeued) \ Range(Trimmed(Requeued)))
        BY <2>6, <3>2 DEF CommitFails
      <4>2. L!Settle
        BY <3>1, <3>2, <4>1, TrimRange DEF L!Settle
      <4>3. QED
        BY <4>2 DEF L!Next
    <3>3. CASE ~(Len(Requeued) > MaxPending)
      <4>1. dropped' = dropped
        BY <2>6, <3>3 DEF CommitFails
      <4>2. L!Settle
        BY <3>1, <4>1 DEF L!Settle
      <4>3. QED
        BY <4>2 DEF L!Next
    <3>4. QED
      BY <3>2, <3>3
  <2>7. QED
    BY <2>2, <2>3, <2>4, <2>5, <2>6 DEF BufferNext, L!Next
<1>3. QED
  BY <1>1, <1>2, BufferInvAlways, PTL DEF BufferSpec, ImplementsLedger, L!Spec

\* Rows up to a bound, in a sequence.
LEMMA RowSeq ==
  ASSUME NEW e \in 0..MaxRows, NEW s \in Seq(Nat), Range(s) \subseteq 1..e
  PROVE  s \in Seq(Row)
<1>1. ASSUME NEW i \in 1..Len(s) PROVE s[i] \in Row
  <2>1. i \in DOMAIN s
    OBVIOUS
  <2>2. s[i] \in 1..e
    BY <2>1 DEF Range
  <2>3. QED
    BY <2>2, BufferAssumption DEF Row
<1>2. Len(s) \in Nat /\ s = [i \in 1..Len(s) |-> s[i]]
  OBVIOUS
<1>3. s \in [1..Len(s) -> Row]
  BY <1>1, <1>2
<1>4. QED
  BY <1>2, <1>3, SeqDef

\* The batch, the buffer and the two sets hold rows within the bound.
THEOREM BufferTypeCorrect == BufferSpec => []BufferTypeOK
<1> DEFINE Bound == enqueued <= MaxRows /\ stored \subseteq 1..enqueued /\ dropped \subseteq 1..enqueued
<1>1. BufferInit => Bound
  BY BufferAssumption DEF BufferInit
<1>2. BufferInv /\ Bound /\ [BufferNext]_bufferVars => Bound'
  <2> SUFFICES ASSUME BufferInv, Bound, [BufferNext]_bufferVars PROVE Bound'
    OBVIOUS
  <2>1. enqueued \in Nat /\ MaxPending \in Nat /\ MaxRows \in Nat
    BY BufferAssumption DEF BufferInv
  <2>2. CASE UNCHANGED bufferVars
    BY <2>2 DEF bufferVars
  <2>3. ASSUME NEW n \in 1..MaxEnqueue, Enqueue(n) PROVE Bound'
    BY <2>1, <2>3, BufferAssumption DEF Enqueue
  <2>4. CASE Flush
    BY <2>4 DEF Flush
  <2>5. CASE CommitOk
    BY <2>5, BatchRange DEF CommitOk
  <2>6. CASE CommitFails
    <3>1. enqueued' = enqueued /\ stored' \subseteq 1..enqueued
      BY <2>6, BatchRange DEF CommitFails
    <3>2. dropped' \subseteq dropped \cup Range(Requeued)
      BY <2>6 DEF CommitFails
    <3>3. Range(Requeued) \subseteq 1..enqueued
      BY <2>1, NewestRange DEF BufferInv
    <3>4. QED
      BY <3>1, <3>2, <3>3
  <2>7. QED
    BY <2>2, <2>3, <2>4, <2>5, <2>6 DEF BufferNext
<1>3. BufferInv /\ Bound => BufferTypeOK
  <2> SUFFICES ASSUME BufferInv, Bound PROVE BufferTypeOK
    OBVIOUS
  <2>1. enqueued \in 0..MaxRows /\ enqueued \in Nat /\ batch \in Seq(Nat) /\ pending \in Seq(Nat)
        /\ 1..enqueued \subseteq Row
    BY BufferAssumption DEF BufferInv, Row
  <2>2. batch \in Seq(Row)
    BY <2>1, BatchRange, RowSeq
  <2>3. Newest(pending, enqueued)
    BY <2>1, SplitNewest DEF BufferInv, Requeued
  <2>4. pending \in Seq(Row)
    BY <2>1, <2>3, NewestRange, RowSeq
  <2>5. flushing \in BOOLEAN
    BY DEF BufferInv
  <2>6. QED
    BY <2>1, <2>2, <2>4, <2>5 DEF BufferTypeOK
<1>4. QED
  BY <1>1, <1>2, <1>3, BufferInvAlways, PTL DEF BufferSpec
================================================================================
