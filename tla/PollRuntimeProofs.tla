-------------------------- MODULE PollRuntimeProofs --------------------------
(***************************************************************************)
(* Proofs about PollRuntime for any finite set of devices, any endpoints   *)
(* and requests, and any number of writes, intervals and failures.         *)
(***************************************************************************)
EXTENDS PollRuntime, FiniteSetTheorems, TLAPS

WriterType == [pc : Steps, before : Device, query : Device, end : Endpoint, prev : Nat,
               heals : BOOLEAN, waits : BOOLEAN]
BufferType == [pending : Seq(Nat), batch : Seq(Nat), flushing : BOOLEAN]

\* The plant, the shutdown and the re-read.
Plant ==
    /\ saved \in [dev : Device, end : Endpoint] /\ roster \in Device
    /\ recovery \in [flag : BOOLEAN, reading : BOOLEAN, query : Device]
    /\ (recovery.flag <=> recovery.reading)
    /\ tangled \in {"no", "was", "yes"} /\ late \in BOOLEAN
    /\ stop \in {"no", "flush", "source", "done"}

\* The sources that were built, and the poll, which reads one that has a host.
Sources ==
    /\ poll # 0 => ends[poll] # None
    /\ ends \in Seq(Endpoint) /\ closed \subseteq 1..Source /\ poll \in 0..Source
    /\ timer \in BOOLEAN

\* What a request has learnt by each of its steps.
Requests ==
    /\ writer \in [Writers -> WriterType]
    /\ \A w \in Writers :
         /\ writer[w].prev \in 0..Source
         /\ writer[w].pc = "close" => writer[w].prev # 0
         /\ writer[w].heals => writer[w].pc # "idle"

\* The numbers up to r that end with r, in order.
Run(q, r) ==
    /\ q \in Seq(Nat) /\ r \in Nat /\ Len(q) <= r
    /\ \A k \in 1..Len(q) : q[k] = r - Len(q) + k

\* With r rows enqueued and those of s stored, buffer b holds the newest ones,
\* in order, the batch first.
Fits(b, r, s) ==
    /\ b \in BufferType /\ (b.flushing <=> b.batch # <<>>)
    /\ Run(b.pending, r) /\ Run(b.batch, r - Len(b.pending))
    /\ s = 1..(r - Len(b.pending) - Len(b.batch))

\* Every interval that was opened is open, or a row.
Books ==
    /\ open \in [Devices -> Endpoint] /\ taken \in 0..MaxTaken
    /\ Fits(buffer, rows, stored)
    /\ taken = rows + Cardinality(Held)

\* A shutdown that missed nothing leaves nothing to come.
Quiet ==
    stop # "no" /\ ~late =>
      /\ ~timer /\ poll = 0 /\ Reloading = {} /\ Held = {} /\ buffer.pending = <<>>
      /\ stop # "flush" => buffer.batch = <<>>

\* What request w has learnt by each of its steps.
Learnt(w) ==
    /\ writer[w].pc = "install" => writer[w].query = saved.dev
    /\ writer[w].pc \in {"endpoint", "flush", "swap", "close"} => roster = saved.dev
    /\ writer[w].pc \in {"flush", "swap", "close"} => Held \subseteq {roster}
    /\ writer[w].pc \in {"flush", "swap"} => writer[w].end = Target(saved)
    /\ writer[w].pc = "close" => ends[Source] = Target(saved)

\* A reload whose outcome can be told: nothing has overlapped it, or it started
\* alone after a tangle and nothing has since.
Clean(w) == writer[w].pc # "idle" /\ (tangled # "yes" \/ writer[w].heals)
Following ==
    \A w \in Writers : Clean(w) =>
      /\ \A v \in Writers : writer[v].pc # "idle" => v = w
      /\ ~recovery.reading /\ Learnt(w)

\* Between reloads the loop follows the plant.
AtRest ==
    Reloading = {} /\ tangled # "yes" =>
      /\ roster = saved.dev /\ Held \subseteq {roster}
      /\ ends[Source] = Target(saved)
      /\ recovery.reading => recovery.query = saved.dev

\* As long as nothing ever overlapped, every replaced source is closed or about to be.
Replaced ==
    tangled = "no" =>
      /\ \A k \in 1..(Source - 1) :
           k \in closed \/ \E w \in Writers : writer[w].pc = "close" /\ writer[w].prev = k
      /\ \A w \in Writers : writer[w].pc = "swap" => writer[w].prev = Source

(***************************************************************************)
(* The inductive invariant.  That no reading is lost needs that a batch    *)
(* goes back in front of what was enqueued meanwhile; that the source      *)
(* follows the plant needs what a reload knows at each of its awaits.      *)
(***************************************************************************)
IInv == Plant /\ Sources /\ Requests /\ Books /\ Quiet /\ Following /\ AtRest /\ Replaced

-----------------------------------------------------------------------------
(* The buffer *)

\* No row, in a form the leaves below can use.
LEMMA EmptyRun ==
    ASSUME NEW r \in Nat PROVE Run(<<>>, r) /\ Len(<<>>) = 0
    BY DEF Run

\* The rows enqueued next.
LEMMA NextRun ==
    ASSUME NEW r \in Nat, NEW n \in Nat
    PROVE  Run([k \in 1..n |-> r + k], r + n) /\ Len([k \in 1..n |-> r + k]) = n
<1> DEFINE new == [k \in 1..n |-> r + k]
<1>1. new \in Seq(Nat)
    <2>1. new \in [1..n -> Nat]
        OBVIOUS
    <2> QED
        BY <2>1
<1>2. Len(new) = n
    OBVIOUS
<1>3. \A k \in 1..n : new[k] = r + k
    OBVIOUS
<1> HIDE DEF new
<1>4. \A k \in 1..n : r + k = (r + n) - n + k
    OBVIOUS
<1>5. r + n \in Nat /\ n <= r + n
    OBVIOUS
<1>6. \A k \in 1..Len(new) : new[k] = (r + n) - Len(new) + k
    BY <1>2, <1>3, <1>4
<1>7. Run(new, r + n)
    BY <1>1, <1>2, <1>5, <1>6 DEF Run
<1> QED
    BY <1>2, <1>7 DEF new

\* A run in front of the one that follows it is a run.
LEMMA JoinedRun ==
    ASSUME NEW q, NEW u, NEW a, NEW r, Run(q, a), Run(u, r), a = r - Len(u)
    PROVE  Run(q \o u, r) /\ Len(q \o u) = Len(q) + Len(u)
<1> DEFINE p == q \o u
<1>1. q \in Seq(Nat) /\ u \in Seq(Nat) /\ a \in Nat /\ r \in Nat
    BY DEF Run
<1>2. Len(q) \in Nat /\ Len(u) \in Nat /\ Len(q) <= a /\ Len(u) <= r
    BY <1>1 DEF Run
<1>3. p \in Seq(Nat) /\ Len(p) = Len(q) + Len(u)
    BY <1>1
<1>4. \A k \in 1..(Len(q) + Len(u)) : p[k] = IF k <= Len(q) THEN q[k] ELSE u[k - Len(q)]
    BY <1>1
<1> HIDE DEF p
<1>5. ASSUME NEW k \in 1..(Len(q) + Len(u)) PROVE p[k] = r - (Len(q) + Len(u)) + k
    <2>1. CASE k <= Len(q)
        <3>1. k \in 1..Len(q)
            BY <1>2, <2>1
        <3>2. p[k] = a - Len(q) + k
            BY <1>4, <2>1, <3>1 DEF Run
        <3> QED
            BY <1>1, <1>2, <3>2
    <2>2. CASE ~(k <= Len(q))
        <3>1. k - Len(q) \in 1..Len(u)
            BY <1>2, <2>2
        <3>2. p[k] = r - Len(u) + (k - Len(q))
            BY <1>4, <2>2, <3>1 DEF Run
        <3> QED
            BY <1>1, <1>2, <3>2
    <2> QED
        BY <2>1, <2>2
<1>6. Len(q) + Len(u) <= r
    BY <1>1, <1>2
<1>7. Run(p, r)
    BY <1>1, <1>3, <1>5, <1>6 DEF Run
<1> QED
    BY <1>3, <1>7 DEF p

\* The numbers of a run.
LEMMA RunSet ==
    ASSUME NEW q, NEW r, Run(q, r)
    PROVE  1..(r - Len(q)) \union ToSet(q) = 1..r
<1>1. q \in Seq(Nat) /\ r \in Nat /\ Len(q) \in Nat /\ Len(q) <= r
    BY DEF Run
<1>2. DOMAIN q = 1..Len(q)
    BY <1>1
<1>3. ToSet(q) = {q[k] : k \in 1..Len(q)}
    BY <1>2 DEF ToSet
<1>4. \A k \in 1..Len(q) : q[k] = r - Len(q) + k
    BY DEF Run
<1>5. \A k \in 1..Len(q) : r - Len(q) + k \in 1..r
    BY <1>1
<1>6. \A x \in 1..r : x \in 1..(r - Len(q)) \/ (x - (r - Len(q)) \in 1..Len(q) /\ r - Len(q) + (x - (r - Len(q))) = x)
    BY <1>1
<1>7. \A x \in 1..(r - Len(q)) : x \in 1..r
    BY <1>1
<1>8. \A x \in ToSet(q) : x \in 1..r
    BY <1>3, <1>4, <1>5
<1>9. \A x \in 1..r : x \in 1..(r - Len(q)) \/ x \in ToSet(q)
    BY <1>3, <1>4, <1>6
<1> QED
    BY <1>7, <1>8, <1>9

\* Rows that are enqueued are the next ones.
LEMMA EnqueuedFits ==
    ASSUME NEW b, NEW s, Fits(b, rows, s), NEW n \in Nat
    PROVE  /\ Fits(Enqueued(b, n), rows + n, s)
           /\ Enqueued(b, n).batch = b.batch /\ Enqueued(b, n).flushing = b.flushing
           /\ Len(Enqueued(b, n).pending) = Len(b.pending) + n
<1> DEFINE new == [k \in 1..n |-> rows + k]
           c == Enqueued(b, n)
           p == b.pending \o new
<1>1. /\ b \in BufferType /\ (b.flushing <=> b.batch # <<>>)
      /\ Run(b.pending, rows) /\ Run(b.batch, rows - Len(b.pending))
      /\ s = 1..(rows - Len(b.pending) - Len(b.batch))
    BY DEF Fits
<1>2. b.pending \in Seq(Nat) /\ b.batch \in Seq(Nat) /\ rows \in Nat
    BY <1>1 DEF Run
<1>3. Len(b.pending) \in Nat /\ Len(b.batch) \in Nat
    BY <1>2
<1>4. Run(new, rows + n) /\ Len(new) = n
    BY <1>2, NextRun
<1>5. c = [b EXCEPT !.pending = p]
    BY DEF Enqueued
<1> HIDE DEF new, c
<1>6. rows = (rows + n) - Len(new)
    BY <1>2, <1>4
<1>7. Run(p, rows + n) /\ Len(p) = Len(b.pending) + n
    BY <1>1, <1>4, <1>6, JoinedRun
<1> HIDE DEF p
<1>8. p \in Seq(Nat)
    BY <1>7 DEF Run
<1>9. c \in BufferType /\ c.pending = p /\ c.batch = b.batch /\ c.flushing = b.flushing
    BY <1>1, <1>5, <1>8 DEF BufferType
<1>10. Len(c.pending) = Len(b.pending) + n /\ Len(c.batch) = Len(b.batch)
    BY <1>7, <1>9
<1>11. \A x \in Nat : (rows + n) - (x + n) = rows - x
    BY <1>2
<1> DEFINE m == rows + n
<1>12. m - Len(c.pending) = rows - Len(b.pending)
    BY <1>3, <1>10, <1>11
<1>13. Run(p, m)
    BY <1>7
<1> HIDE DEF m
<1>14. Run(c.pending, m) /\ Run(c.batch, m - Len(c.pending))
    BY <1>1, <1>9, <1>12, <1>13
<1>15. s = 1..(m - Len(c.pending) - Len(c.batch))
    BY <1>1, <1>10, <1>12
<1>16. c.flushing <=> c.batch # <<>>
    BY <1>1, <1>9, Zenon
<1>17. Fits(c, m, s)
    BY <1>9, <1>14, <1>15, <1>16 DEF Fits
<1> QED
    BY <1>7, <1>9, <1>17 DEF c, m

\* A flush moves what is pending into the batch, unless a commit is outstanding.
LEMMA FlushedFits ==
    ASSUME NEW b, NEW r, NEW s, Fits(b, r, s)
    PROVE  /\ Fits(Flushed(b), r, s)
           /\ ~b.flushing => Flushed(b).pending = <<>>
           /\ ~b.flushing /\ ~Flushes(b) => Flushed(b).batch = <<>>
<1> DEFINE c == [pending |-> <<>>, batch |-> b.pending, flushing |-> TRUE]
<1>1. /\ b \in BufferType /\ (b.flushing <=> b.batch # <<>>)
      /\ Run(b.pending, r) /\ Run(b.batch, r - Len(b.pending))
      /\ s = 1..(r - Len(b.pending) - Len(b.batch))
    BY DEF Fits
<1>2. b.pending \in Seq(Nat) /\ r \in Nat
    BY <1>1 DEF Run
<1>3. Len(b.pending) \in Nat
    BY <1>2
<1>4. CASE ~b.flushing /\ b.pending # <<>>
    <2>1. Flushed(b) = c /\ Flushes(b)
        BY <1>4 DEF Flushed, Flushes
    <2>2. c.pending = <<>> /\ c.batch = b.pending /\ c.flushing = TRUE /\ c \in BufferType
        BY <1>2 DEF BufferType
    <2> HIDE DEF c
    <2>3. Len(b.batch) = 0 /\ Len(c.pending) = 0 /\ Run(c.pending, r)
        BY <1>1, <1>2, <1>4, <2>2, EmptyRun
    <2>4. /\ r - Len(c.pending) = r
          /\ r - Len(b.pending) - Len(b.batch) = r - Len(c.pending) - Len(c.batch)
        BY <1>2, <1>3, <2>2, <2>3
    <2>5. c.flushing <=> c.batch # <<>>
        BY <1>4, <2>2
    <2>6. Run(c.batch, r - Len(c.pending)) /\ s = 1..(r - Len(c.pending) - Len(c.batch))
        BY <1>1, <2>2, <2>4
    <2>7. Fits(c, r, s)
        BY <2>2, <2>3, <2>5, <2>6 DEF Fits
    <2> QED
        BY <1>4, <2>1, <2>2, <2>7
<1>5. CASE b.flushing \/ b.pending = <<>>
    <2>1. Flushed(b) = b
        BY <1>5 DEF Flushed
    <2> QED
        BY <1>1, <1>5, <2>1 DEF Flushes
<1> QED
    BY <1>4, <1>5

\* A commit that succeeds stores the batch; one that fails puts it back in front.
LEMMA CommitFits ==
    ASSUME NEW b, NEW r, NEW s, Fits(b, r, s)
    PROVE  /\ Fits([pending |-> b.pending, batch |-> <<>>, flushing |-> FALSE], r, s \union ToSet(b.batch))
           /\ Fits([pending |-> b.batch \o b.pending, batch |-> <<>>, flushing |-> FALSE], r, s)
<1> DEFINE c == [pending |-> b.pending, batch |-> <<>>, flushing |-> FALSE]
           p == b.batch \o b.pending
           d == [pending |-> p, batch |-> <<>>, flushing |-> FALSE]
<1>1. /\ b \in BufferType
      /\ Run(b.pending, r) /\ Run(b.batch, r - Len(b.pending))
      /\ s = 1..(r - Len(b.pending) - Len(b.batch))
    BY DEF Fits
<1>2. b.pending \in Seq(Nat) /\ b.batch \in Seq(Nat) /\ r \in Nat /\ r - Len(b.pending) \in Nat
    BY <1>1 DEF Run
<1>3. Len(b.pending) \in Nat /\ Len(b.batch) \in Nat
    BY <1>2
<1>4. Run(p, r) /\ Len(p) = Len(b.batch) + Len(b.pending)
    BY <1>1, JoinedRun
<1>5. p \in Seq(Nat)
    BY <1>4 DEF Run
<1> HIDE DEF p
<1>6. c \in BufferType /\ c.pending = b.pending /\ c.batch = <<>> /\ c.flushing = FALSE
    BY <1>2 DEF BufferType
<1>7. d \in BufferType /\ d.pending = p /\ d.batch = <<>> /\ d.flushing = FALSE
    BY <1>5 DEF BufferType
<1> HIDE DEF c, d
<1>8. Len(c.batch) = 0 /\ Len(d.batch) = 0
    BY <1>6, <1>7, <1>2, EmptyRun
<1>9. s \union ToSet(b.batch) = 1..(r - Len(b.pending))
    BY <1>1, RunSet
<1>10. Fits(c, r, s \union ToSet(b.batch))
    <2>1. Run(c.batch, r - Len(c.pending))
        BY <1>2, <1>6, EmptyRun
    <2>2. r - Len(c.pending) - Len(c.batch) = r - Len(b.pending)
        BY <1>2, <1>3, <1>6, <1>8
    <2> QED
        BY <1>1, <1>6, <1>9, <2>1, <2>2 DEF Fits
<1>11. Fits(d, r, s)
    <2>1. r - Len(p) - Len(d.batch) = r - Len(b.pending) - Len(b.batch) /\ r - Len(p) \in Nat
        <3>1. Len(p) <= r
            BY <1>4 DEF Run
        <3>2. \A x, y \in Nat : r - (x + y) - 0 = r - y - x /\ (x + y <= r => r - (x + y) \in Nat)
            BY <1>2
        <3>3. Len(b.batch) + Len(b.pending) <= r
            BY <1>4, <3>1
        <3>4. /\ r - (Len(b.batch) + Len(b.pending)) - 0 = r - Len(b.pending) - Len(b.batch)
              /\ r - (Len(b.batch) + Len(b.pending)) \in Nat
            BY <1>3, <3>2, <3>3
        <3> QED
            BY <1>4, <1>8, <3>4, Zenon
    <2>2. Run(d.batch, r - Len(d.pending))
        BY <1>7, <2>1, EmptyRun
    <2> QED
        BY <1>1, <1>4, <1>7, <2>1, <2>2 DEF Fits
<1> QED
    BY <1>10, <1>11 DEF c, d, p

-----------------------------------------------------------------------------
(* The intervals *)

\* The devices that hold an interval open are finitely many.
LEMMA HeldFinite ==
    IsFiniteSet(Held) /\ Cardinality(Held) \in Nat
<1>1. Held \in SUBSET Devices /\ IsFiniteSet(Devices)
    BY RuntimeAssumption DEF Held, CloseOf
<1>2. IsFiniteSet(Held)
    BY <1>1, FS_Subset
<1> QED
    BY <1>2, FS_CardinalityType

\* fanOut(): a reading opens an interval, and ends the one before as a row.
LEMMA CommitKeeps ==
    ASSUME Books, NEW d \in Devices, NEW e \in Endpoints, Commit(d, e), stored' = stored
    PROVE  Books' /\ Held' \subseteq Held \union {d}
<1>1. /\ open \in [Devices -> Endpoint] /\ taken \in 0..MaxTaken
      /\ Fits(buffer, rows, stored) /\ taken = rows + Cardinality(Held)
    BY DEF Books
<1>2. MaxTaken \in Nat /\ e # None /\ e \in Endpoint
    BY RuntimeAssumption DEF Endpoint
<1>3. IsFiniteSet(Held) /\ Cardinality(Held) \in Nat /\ rows \in Nat
    BY <1>1, HeldFinite DEF Fits, Run
<1>4. (d \in Held <=> open[d] # None) /\ Held' = {x \in Devices : open'[x] # None}
    BY DEF Held, CloseOf
<1>5. CASE /\ open[d] = None /\ taken < MaxTaken
           /\ open' = [open EXCEPT ![d] = e] /\ taken' = taken + 1
           /\ UNCHANGED <<rows, buffer>>
    <2>1. open' \in [Devices -> Endpoint] /\ taken' \in 0..MaxTaken
        BY <1>1, <1>2, <1>5
    <2>2. Held' = Held \union {d}
        BY <1>1, <1>2, <1>5 DEF Held, CloseOf
    <2>3. Cardinality(Held \union {d}) = Cardinality(Held) + 1
        BY <1>3, <1>4, <1>5, FS_AddElement
    <2>4. taken' = rows' + Cardinality(Held')
        <3>1. taken + 1 = rows + (Cardinality(Held) + 1)
            BY <1>1, <1>3
        <3> QED
            BY <1>5, <2>2, <2>3, <3>1
    <2> QED
        BY <1>1, <1>5, <2>1, <2>2, <2>4 DEF Books
<1>6. CASE UNCHANGED <<open, taken, rows, buffer>>
    BY <1>6 DEF Books, Held, CloseOf
<1>7. CASE /\ open[d] # None /\ taken < MaxTaken
           /\ rows' = rows + 1 /\ buffer' = Enqueued(buffer, 1)
           /\ open' = [open EXCEPT ![d] = e] /\ taken' = taken + 1
    <2>1. open' \in [Devices -> Endpoint] /\ taken' \in 0..MaxTaken
        BY <1>1, <1>2, <1>7
    <2>2. Held' = Held
        BY <1>1, <1>2, <1>7 DEF Held, CloseOf
    <2>3. Fits(buffer', rows', stored')
        BY <1>1, <1>7, EnqueuedFits
    <2>4. taken + 1 = (rows + 1) + Cardinality(Held)
        BY <1>1, <1>3
    <2> QED
        BY <1>7, <2>1, <2>2, <2>3, <2>4 DEF Books
<1> QED
    BY <1>5, <1>6, <1>7 DEF Commit

\* forget(): what the device held open becomes a row.
LEMMA ForgetKeeps ==
    ASSUME Books, NEW d, Forget(d), UNCHANGED <<stored, taken>>
    PROVE  Books' /\ Held' \subseteq Held \ {d}
<1> DEFINE n == Cardinality(CloseOf({d} \intersect Devices))
<1>1. /\ open \in [Devices -> Endpoint] /\ taken \in 0..MaxTaken
      /\ Fits(buffer, rows, stored) /\ taken = rows + Cardinality(Held)
    BY DEF Books
<1>2. /\ rows' = rows + n /\ buffer' = Enqueued(buffer, n)
      /\ open' = [x \in Devices |-> IF x = d THEN None ELSE open[x]]
    BY DEF Forget
<1>3. IsFiniteSet(Held) /\ Cardinality(Held) \in Nat /\ rows \in Nat
    BY <1>1, HeldFinite DEF Fits, Run
<1>4. Held' = Held \ {d} /\ open' \in [Devices -> Endpoint]
    BY <1>1, <1>2 DEF Held, CloseOf, Endpoint
<1>5. n \in Nat /\ Cardinality(Held) = n + Cardinality(Held \ {d})
    <2>1. CASE d \in Held
        <3>1. CloseOf({d} \intersect Devices) = {d}
            BY <2>1 DEF Held, CloseOf
        <3>2. n = 1
            BY <3>1, FS_Singleton
        <3>3. Cardinality(Held \ {d}) = Cardinality(Held) - 1
            BY <1>3, <2>1, FS_RemoveElement
        <3> HIDE DEF n
        <3> QED
            BY <1>3, <3>2, <3>3
    <2>2. CASE d \notin Held
        <3>1. CloseOf({d} \intersect Devices) = {}
            BY <2>2 DEF Held, CloseOf
        <3>2. n = 0
            BY <3>1, FS_EmptySet
        <3>3. Cardinality(Held \ {d}) = Cardinality(Held)
            BY <1>3, <2>2, FS_RemoveElement
        <3> HIDE DEF n
        <3> QED
            BY <1>3, <3>2, <3>3
    <2> QED
        BY <2>1, <2>2
<1>6. IsFiniteSet(Held \ {d})
    BY <1>3, FS_RemoveElement
<1>7. Cardinality(Held \ {d}) \in Nat
    BY <1>6, FS_CardinalityType
<1>8. Fits(buffer', rows', stored')
    BY <1>1, <1>2, <1>5, EnqueuedFits
<1> HIDE DEF n
<1>9. taken' = rows' + Cardinality(Held')
    <2>1. taken = (rows + n) + Cardinality(Held \ {d})
        BY <1>1, <1>3, <1>5, <1>7
    <2> QED
        BY <1>2, <1>4, <2>1
<1> QED
    BY <1>1, <1>4, <1>8, <1>9 DEF Books

\* closeSeriesIntervals() and the flush: nothing is open, and nothing is pending
\* unless a commit is outstanding.
LEMMA DrainKeeps ==
    ASSUME Books, Drain, UNCHANGED <<stored, taken>>
    PROVE  /\ Books' /\ Held' = {}
           /\ ~buffer.flushing => buffer'.pending = <<>>
           /\ ~buffer.flushing /\ ~Flushes(Closed) => buffer'.batch = <<>>
<1> DEFINE n == Cardinality(Held)
<1>1. /\ open \in [Devices -> Endpoint] /\ taken \in 0..MaxTaken
      /\ Fits(buffer, rows, stored) /\ taken = rows + n
    BY DEF Books
<1>2. /\ rows' = rows + n /\ buffer' = Flushed(Closed) /\ Closed = Enqueued(buffer, n)
      /\ open' = [d \in Devices |-> None]
    BY DEF Drain, Closed, Held
<1>3. n \in Nat /\ rows \in Nat
    BY <1>1, HeldFinite DEF Fits, Run
<1>4. Held' = {} /\ open' \in [Devices -> Endpoint]
    BY <1>2 DEF Held, CloseOf, Endpoint
<1>5. Cardinality(Held') = 0
    BY <1>4, FS_EmptySet
<1>6. Fits(Closed, rows', stored) /\ Closed.flushing = buffer.flushing
    BY <1>1, <1>2, <1>3, EnqueuedFits
<1>7. /\ Fits(buffer', rows', stored)
      /\ ~Closed.flushing => buffer'.pending = <<>>
      /\ ~Closed.flushing /\ ~Flushes(Closed) => buffer'.batch = <<>>
    BY <1>2, <1>6, FlushedFits
<1> HIDE DEF n
<1>8. taken' = rows' + Cardinality(Held')
    <2>1. rows + n = (rows + n) + 0
        BY <1>3
    <2> QED
        BY <1>1, <1>2, <1>5, <2>1
<1> QED
    BY <1>1, <1>4, <1>6, <1>7, <1>8 DEF Books

\* The rows of a buffer and of the database are the ones enqueued.
LEMMA FitsTyped ==
    ASSUME NEW b, NEW r, NEW s, Fits(b, r, s)
    PROVE  /\ r \in Nat /\ b.flushing = (b.batch # <<>>)
           /\ s \union ToSet(b.batch \o b.pending) = 1..r
           /\ Run(b.batch \o b.pending, r)
           /\ \A k \in s \union ToSet(b.pending) \union ToSet(b.batch) : k \in 1..r
<1>1. /\ b \in BufferType /\ (b.flushing <=> b.batch # <<>>)
      /\ Run(b.pending, r) /\ Run(b.batch, r - Len(b.pending))
      /\ s = 1..(r - Len(b.pending) - Len(b.batch))
    BY DEF Fits
<1>2. b.flushing \in BOOLEAN
    BY <1>1 DEF BufferType
<1>3. b.flushing = (b.batch # <<>>)
    BY <1>1, <1>2
<1>4. b.pending \in Seq(Nat) /\ b.batch \in Seq(Nat) /\ r \in Nat /\ Len(b.pending) <= r
    BY <1>1 DEF Run
<1>5. Len(b.pending) \in Nat /\ Len(b.batch) \in Nat
    BY <1>4
<1>6. Run(b.batch \o b.pending, r) /\ Len(b.batch \o b.pending) = Len(b.batch) + Len(b.pending)
    BY <1>1, JoinedRun
<1>7. r - (Len(b.batch) + Len(b.pending)) = r - Len(b.pending) - Len(b.batch)
    BY <1>4, <1>5
<1>8. s \union ToSet(b.batch \o b.pending) = 1..r
    BY <1>1, <1>6, <1>7, RunSet
<1>9. 1..(r - Len(b.pending)) \union ToSet(b.pending) = 1..r
    BY <1>1, RunSet
<1>10. s \union ToSet(b.batch) = 1..(r - Len(b.pending))
    BY <1>1, RunSet
<1>11. \A k \in s \union ToSet(b.pending) \union ToSet(b.batch) : k \in 1..r
    BY <1>9, <1>10
<1> QED
    BY <1>3, <1>4, <1>6, <1>8, <1>11

\* The invariant types the state.
LEMMA Typed ==
    IInv => TypeOK
<1> SUFFICES ASSUME IInv PROVE TypeOK
    OBVIOUS
<1>1. Plant /\ Sources /\ Requests /\ Books
    BY DEF IInv
<1>2. /\ rows \in Nat /\ buffer.flushing = (buffer.batch # <<>>)
      /\ \A k \in stored \union ToSet(buffer.pending) \union ToSet(buffer.batch) : k \in 1..rows
    BY <1>1, FitsTyped DEF Books
<1>3. ASSUME NEW w \in Writers
      PROVE  /\ writer[w].pc \in Steps /\ writer[w].before \in Device /\ writer[w].query \in Device
             /\ writer[w].end \in Endpoint /\ writer[w].prev \in 0..Source
             /\ writer[w].heals \in BOOLEAN /\ writer[w].waits \in BOOLEAN
    <2>1. writer[w] \in WriterType /\ writer[w].prev \in 0..Source
        BY <1>1, <1>3 DEF Requests
    <2> QED
        BY <2>1 DEF WriterType
<1> QED
    BY <1>1, <1>2, <1>3 DEF TypeOK, Plant, Sources, Books

-----------------------------------------------------------------------------
(* The steps *)

\* The boot finds nothing but the plant's rows.
LEMMA InitHolds ==
    Init => IInv
<1> SUFFICES ASSUME Init PROVE IInv
    OBVIOUS
<1>0. /\ saved \in [dev : {FirstDevice, None}, end : {FirstEndpoint}]
      /\ roster = None /\ ends = <<>> /\ closed = {} /\ poll = 0 /\ timer = FALSE
      /\ open = [d \in Devices |-> None] /\ rows = 0
      /\ buffer = [pending |-> <<>>, batch |-> <<>>, flushing |-> FALSE] /\ stored = {}
      /\ recovery = NoRecovery /\ stop = "no" /\ taken = 0
      /\ tangled = "no" /\ late = FALSE
    BY DEF Init
<1>1. Plant
    <2>1. saved \in [dev : Device, end : Endpoint] /\ roster \in Device
        BY <1>0, RuntimeAssumption DEF Device, Endpoint
    <2>2. NoRecovery \in [flag : BOOLEAN, reading : BOOLEAN, query : Device]
        BY DEF NoRecovery, Device
    <2>3. NoRecovery.flag <=> NoRecovery.reading
        BY DEF NoRecovery
    <2> QED
        BY <1>0, <2>1, <2>2, <2>3 DEF Plant
<1>2. Sources /\ Source = 0
    <2>1. Source = 0
        BY <1>0, EmptyRun DEF Source
    <2>2. ends \in Seq(Endpoint) /\ closed \subseteq 1..Source
        BY <1>0
    <2>3. poll = 0 /\ timer \in BOOLEAN
        BY <1>0
    <2>4. poll \in 0..Source
        BY <2>1, <2>3
    <2> QED
        BY <2>1, <2>2, <2>3, <2>4 DEF Sources
<1>3. ASSUME NEW w \in Writers
      PROVE  /\ writer[w] \in WriterType /\ writer[w].prev = 0 /\ writer[w].heals = FALSE
             /\ writer[w].pc \in {"idle", "reload"}
             /\ writer[w].pc = "reload" <=> w = Boot
    <2>1. Idle \in WriterType /\ [Idle EXCEPT !.pc = "reload"] \in WriterType
        BY DEF Idle, WriterType, Steps, Device, Endpoint
    <2>2. writer[w] = IF w = Boot THEN [Idle EXCEPT !.pc = "reload"] ELSE Idle
        BY DEF Init
    <2>3. CASE w = Boot
        BY <2>1, <2>2, <2>3 DEF Idle
    <2>4. CASE w # Boot
        BY <2>1, <2>2, <2>4 DEF Idle
    <2> QED
        BY <2>3, <2>4
<1>4. Requests
    <2>1. writer \in [Writers -> WriterType]
        BY <1>3 DEF Init
    <2>2. \A w \in Writers : writer[w].prev \in 0..Source
        <3>1. 0 \in 0..0
            OBVIOUS
        <3> QED
            BY <1>2, <1>3, <3>1, Zenon
    <2> QED
        BY <1>3, <2>1, <2>2 DEF Requests
<1>5. Books /\ Held = {}
    <2>1. Held = {} /\ open \in [Devices -> Endpoint]
        BY <1>0 DEF Held, CloseOf, Endpoint
    <2>2. Cardinality(Held) = 0
        BY <2>1, FS_EmptySet
    <2>3. Fits(buffer, rows, stored)
        <3>1. Run(<<>>, 0) /\ Len(<<>>) = 0
            BY EmptyRun
        <3>2. buffer \in BufferType /\ buffer.pending = <<>> /\ buffer.batch = <<>> /\ buffer.flushing = FALSE
            BY <1>0 DEF BufferType
        <3>3. 0 - 0 = 0 /\ 1..0 = {}
            OBVIOUS
        <3>4. rows - Len(buffer.pending) = 0 /\ rows - Len(buffer.pending) - Len(buffer.batch) = 0
            BY <1>0, <3>1, <3>2, <3>3, Zenon
        <3> QED
            BY <1>0, <3>1, <3>2, <3>3, <3>4 DEF Fits
    <2>4. taken \in 0..MaxTaken /\ taken = rows + Cardinality(Held)
        BY <1>0, <2>2, RuntimeAssumption
    <2> QED
        BY <2>1, <2>3, <2>4 DEF Books
<1>6. Quiet
    BY <1>0 DEF Quiet
<1>7. writer[Boot].pc = "reload"
    BY <1>3, RuntimeAssumption
<1>8. Following
    BY <1>0, <1>3 DEF Following, Learnt, Clean, NoRecovery
<1>9. AtRest
    BY <1>7, RuntimeAssumption DEF AtRest, Reloading
<1>10. Replaced
    <2>1. 1..(0 - 1) = {}
        OBVIOUS
    <2> QED
        BY <1>2, <1>3, <2>1 DEF Replaced
<1> QED
    BY <1>1, <1>2, <1>4, <1>5, <1>6, <1>8, <1>9, <1>10 DEF IInv

\* The scheduler's flush.
LEMMA FlushTickStep ==
    ASSUME IInv, FlushTick PROVE IInv'
<1>1. /\ UNCHANGED <<saved, roster, sourceVars, poll, open, rows, stored, writer, recovery,
                     stop, counters, tangled, late>>
      /\ buffer' = Flushed(buffer) /\ stop = "no"
    BY DEF FlushTick
<1>2. Books'
    BY <1>1, FlushedFits DEF IInv, Books, Held, CloseOf, counters
<1>3. Plant' /\ Sources' /\ Requests'
    BY <1>1 DEF IInv, Plant, Sources, Requests, Source, sourceVars
<1>4. Quiet'
    BY <1>1 DEF Quiet
<1>5. Following' /\ AtRest' /\ Replaced'
    BY <1>1 DEF IInv, Following, Learnt, Clean, AtRest, Replaced, Reloading, Held, CloseOf,
                Source,
                sourceVars
<1> QED
    BY <1>2, <1>3, <1>4, <1>5 DEF IInv

\* A poll starts, or ends without a sample to keep.
LEMMA PollStep ==
    ASSUME IInv, PollStart \/ PollNowhere PROVE IInv'
<1>1. /\ UNCHANGED <<saved, roster, sourceVars, open, rows, buffer, stored, writer, recovery,
                     stop, counters, tangled, late>>
      /\ poll' \in {0, Source} /\ (poll' # 0 => timer)
      /\ poll' # 0 => ends[poll'] # None
    BY DEF PollStart, PollNowhere, Connectable
<1>2. Books'
    BY <1>1 DEF IInv, Books, Held, CloseOf, counters
<1>3. Plant' /\ Requests'
    BY <1>1 DEF IInv, Plant, Requests, Source, sourceVars
<1>4. Sources'
    <2>1. ends \in Seq(Endpoint) /\ Source \in Nat
        BY DEF IInv, Sources, Source
    <2>2. poll' \in 0..Source
        BY <1>1, <2>1
    <2> QED
        BY <1>1, <2>2 DEF IInv, Sources, Source, sourceVars
<1>5. Quiet'
    BY <1>1 DEF IInv, Quiet, Reloading, Held, CloseOf, sourceVars
<1>6. Following' /\ AtRest' /\ Replaced'
    BY <1>1 DEF IInv, Following, Learnt, Clean, AtRest, Replaced, Reloading, Held, CloseOf,
                Source,
                sourceVars
<1> QED
    BY <1>2, <1>3, <1>4, <1>5, <1>6 DEF IInv

\* A sample whose device is registered opens an interval for that device only.
LEMMA FanOutStep ==
    ASSUME IInv, FanOut PROVE IInv'
<1>1. /\ UNCHANGED <<saved, roster, sourceVars, stored, writer, recovery, stop, writes,
                     faults, tangled, late>>
      /\ poll # 0 /\ roster # None /\ poll' = 0 /\ Commit(roster, ends[poll])
    BY DEF FanOut
<1>2. roster \in Devices
    BY <1>1 DEF IInv, Plant, Device
<1>3. ends \in Seq(Endpoint) /\ Source \in Nat /\ poll \in 0..Source
    BY DEF IInv, Sources, Source
<1>4. ends[poll] \in Endpoints
    <2>1. poll \in 1..Len(ends)
        BY <1>1, <1>3 DEF Source
    <2>2. ends[poll] # None
        BY <1>1 DEF IInv, Sources
    <2> QED
        BY <1>3, <2>1, <2>2 DEF Endpoint
<1>5. Books' /\ Held' \subseteq Held \union {roster}
    BY <1>1, <1>2, <1>4, CommitKeeps DEF IInv
<1>6. Plant' /\ Requests'
    BY <1>1 DEF IInv, Plant, Requests, Source, sourceVars
<1>7. Sources'
    BY <1>1, <1>3 DEF IInv, Sources, Source, sourceVars
<1>8. Quiet'
    BY <1>1 DEF IInv, Quiet
<1>9. Following' /\ AtRest' /\ Replaced'
    BY <1>1, <1>5 DEF IInv, Following, Learnt, Clean, AtRest, Replaced, Reloading, Source,
                      sourceVars
<1> QED
    BY <1>5, <1>6, <1>7, <1>8, <1>9 DEF IInv

\* The re-read arrives.  It was asked for while no reload was under way, or the
\* reloads are tangled.
LEMMA RecoverStep ==
    ASSUME IInv, Recover PROVE IInv'
<1>1. /\ UNCHANGED <<saved, sourceVars, poll, open, rows, buffer, stored, writer, stop,
                     counters, tangled, late>>
      /\ recovery.reading /\ roster' = recovery.query /\ recovery' = NoRecovery
    BY DEF Recover
<1>2. Books'
    BY <1>1 DEF IInv, Books, Held, CloseOf, counters
<1>3. Plant'
    <2>1. NoRecovery \in [flag : BOOLEAN, reading : BOOLEAN, query : Device]
        BY DEF NoRecovery, Device
    <2>2. NoRecovery.flag <=> NoRecovery.reading
        BY DEF NoRecovery
    <2> QED
        BY <1>1, <2>1, <2>2 DEF IInv, Plant
<1>4. Sources' /\ Requests'
    BY <1>1 DEF IInv, Sources, Requests, Source, sourceVars
<1>5. Quiet'
    BY <1>1 DEF IInv, Quiet, Reloading, Held, CloseOf, sourceVars
<1>6. ~recovery'.reading
    BY <1>1 DEF NoRecovery
<1>7. Following'
    BY <1>1 DEF IInv, Following, Clean
<1>8. AtRest'
    BY <1>1, <1>6 DEF IInv, AtRest, Reloading, Held, CloseOf, Source, sourceVars
<1>9. Replaced'
    BY <1>1 DEF IInv, Replaced, Source, sourceVars
<1> QED
    BY <1>2, <1>3, <1>4, <1>5, <1>7, <1>8, <1>9 DEF IInv

\* The re-read fails.
LEMMA RecoverFailsStep ==
    ASSUME IInv, RecoverFails PROVE IInv'
<1>1. /\ UNCHANGED <<saved, roster, sourceVars, poll, open, rows, buffer, stored, writer,
                     stop, taken, writes, tangled, late>>
      /\ recovery' = NoRecovery
    BY DEF RecoverFails
<1>2. Books'
    BY <1>1 DEF IInv, Books, Held, CloseOf
<1>3. Plant'
    <2>1. NoRecovery \in [flag : BOOLEAN, reading : BOOLEAN, query : Device]
        BY DEF NoRecovery, Device
    <2>2. NoRecovery.flag <=> NoRecovery.reading
        BY DEF NoRecovery
    <2> QED
        BY <1>1, <2>1, <2>2 DEF IInv, Plant
<1>4. Sources' /\ Requests'
    BY <1>1 DEF IInv, Sources, Requests, Source, sourceVars
<1>5. ~recovery'.reading
    BY <1>1 DEF NoRecovery
<1>6. Quiet' /\ Following' /\ AtRest' /\ Replaced'
    BY <1>1, <1>5 DEF IInv, Quiet, Following, Learnt, Clean, AtRest, Replaced, Reloading, Held,
                      CloseOf, Source, sourceVars
<1> QED
    BY <1>2, <1>3, <1>4, <1>6 DEF IInv

\* stop(): what it does not wait for makes it late.
LEMMA StopStep ==
    ASSUME IInv, Stop PROVE IInv'
<1>1. /\ UNCHANGED <<saved, roster, ends, closed, poll, stored, writer, recovery, counters,
                     tangled>>
      /\ timer' = FALSE /\ Drain
      /\ late' = (buffer.flushing \/ poll # 0 \/ Reloading # {})
      /\ stop' = IF Flushes(Closed) THEN "flush" ELSE "source"
    BY DEF Stop
<1>2. /\ Books' /\ Held' = {}
      /\ ~buffer.flushing => buffer'.pending = <<>>
      /\ ~buffer.flushing /\ ~Flushes(Closed) => buffer'.batch = <<>>
    BY <1>1, DrainKeeps DEF IInv, counters
<1>3. Plant'
    <2>1. late' \in BOOLEAN /\ stop' \in {"no", "flush", "source", "done"}
        BY <1>1
    <2> QED
        BY <1>1, <2>1 DEF IInv, Plant
<1>4. Sources' /\ Requests'
    BY <1>1 DEF IInv, Sources, Requests, Source
<1>5. Quiet'
    <2> SUFFICES ASSUME ~late'
                 PROVE  /\ ~timer' /\ poll' = 0 /\ Reloading' = {} /\ Held' = {}
                        /\ buffer'.pending = <<>>
                        /\ stop' # "flush" => buffer'.batch = <<>>
        BY DEF Quiet
    <2>1. ~buffer.flushing /\ poll = 0 /\ Reloading = {}
        BY <1>1
    <2>2. Reloading' = {}
        BY <1>1, <2>1 DEF Reloading
    <2> QED
        BY <1>1, <1>2, <2>1, <2>2
<1>6. Following' /\ AtRest' /\ Replaced'
    BY <1>1, <1>2 DEF IInv, Following, Learnt, Clean, AtRest, Replaced, Reloading, Source
<1> QED
    BY <1>2, <1>3, <1>4, <1>5, <1>6 DEF IInv

\* The process exits.
LEMMA ExitStep ==
    ASSUME IInv, Exit PROVE IInv'
<1>1. /\ UNCHANGED <<saved, roster, ends, timer, poll, open, rows, buffer, stored, writer,
                     recovery, counters, tangled, late>>
      /\ stop = "source" /\ stop' = "done" /\ closed' = closed \union ({Source} \ {0})
    BY DEF Exit
<1>2. Books'
    BY <1>1 DEF IInv, Books, Held, CloseOf, counters
<1>3. Plant' /\ Requests'
    BY <1>1 DEF IInv, Plant, Requests, Source
<1>4. Sources'
    <2>1. ends \in Seq(Endpoint) /\ Source \in Nat
        BY DEF IInv, Sources, Source
    <2>2. {Source} \ {0} \subseteq 1..Source
        BY <2>1
    <2> QED
        BY <1>1, <2>2 DEF IInv, Sources, Source
<1>5. Quiet'
    BY <1>1 DEF IInv, Quiet, Reloading, Held, CloseOf
<1>6. Following' /\ AtRest' /\ Replaced'
    BY <1>1 DEF IInv, Following, Learnt, Clean, AtRest, Replaced, Reloading, Held, CloseOf,
                Source
<1> QED
    BY <1>2, <1>3, <1>4, <1>5, <1>6 DEF IInv

\* What a request keeps when it only stops waiting, or its outcome can no longer
\* be told.
Same(r, q) ==
    /\ q \in WriterType /\ q.pc = r.pc /\ q.before = r.before /\ q.query = r.query
    /\ q.end = r.end /\ q.prev = r.prev

\* Whoever awaited a commit goes on from where it was.
LEMMA ResumedWriters ==
    ASSUME Requests, writer' = Resumed
    PROVE  /\ writer' \in [Writers -> WriterType]
           /\ \A w \in Writers : Same(writer[w], writer'[w]) /\ writer'[w].heals = writer[w].heals
<1>1. ASSUME NEW w \in Writers
      PROVE  Same(writer[w], writer'[w]) /\ writer'[w].heals = writer[w].heals
    <2>1. writer[w] \in WriterType /\ writer'[w] = [writer[w] EXCEPT !.waits = FALSE]
        BY DEF Requests, Resumed
    <2> QED
        BY <2>1 DEF Same, WriterType
<1>2. writer' \in [Writers -> WriterType]
    BY <1>1 DEF Resumed, Same
<1> QED
    BY <1>1, <1>2

\* A commit that succeeds.
LEMMA CommitOkStep ==
    ASSUME IInv, CommitOk PROVE IInv'
<1>1. /\ UNCHANGED <<saved, roster, sourceVars, poll, open, rows, recovery, counters,
                     tangled, late>>
      /\ stored' = stored \union ToSet(buffer.batch)
      /\ buffer' = [pending |-> buffer.pending, batch |-> <<>>, flushing |-> FALSE]
      /\ writer' = Resumed /\ stop' = IF stop = "flush" THEN "source" ELSE stop
    BY DEF CommitOk
<1>2. /\ writer' \in [Writers -> WriterType]
      /\ \A w \in Writers : Same(writer[w], writer'[w]) /\ writer'[w].heals = writer[w].heals
    BY <1>1, ResumedWriters DEF IInv
<1>3. Books'
    BY <1>1, CommitFits DEF IInv, Books, Held, CloseOf, counters
<1>4. Plant' /\ Sources'
    BY <1>1 DEF IInv, Plant, Sources, Source, sourceVars
<1>5. Requests'
    BY <1>1, <1>2 DEF IInv, Requests, Same, Source, sourceVars
<1>6. Reloading' = Reloading /\ Held' = Held
    BY <1>1, <1>2 DEF Reloading, Held, CloseOf, Same
<1>7. Quiet'
    <2>1. buffer'.pending = buffer.pending /\ buffer'.batch = <<>>
        BY <1>1
    <2> QED
        BY <1>1, <1>6, <2>1 DEF IInv, Quiet, sourceVars
<1>8. Following' /\ AtRest' /\ Replaced'
    BY <1>1, <1>2, <1>6 DEF IInv, Following, Learnt, Clean, AtRest, Replaced, Same, Source,
                            sourceVars
<1> QED
    BY <1>3, <1>4, <1>5, <1>7, <1>8 DEF IInv

\* A commit that fails; during the shutdown nobody tries again.
LEMMA CommitFailsStep ==
    ASSUME IInv, CommitFails PROVE IInv'
<1>1. /\ UNCHANGED <<saved, roster, sourceVars, poll, open, rows, stored, recovery, taken,
                     writes, tangled>>
      /\ buffer' = [pending |-> buffer.batch \o buffer.pending, batch |-> <<>>,
                    flushing |-> FALSE]
      /\ writer' = Resumed /\ stop' = IF stop = "flush" THEN "source" ELSE stop
      /\ late' = (late \/ stop # "no")
    BY DEF CommitFails
<1>2. /\ writer' \in [Writers -> WriterType]
      /\ \A w \in Writers : Same(writer[w], writer'[w]) /\ writer'[w].heals = writer[w].heals
    BY <1>1, ResumedWriters DEF IInv
<1>3. Books'
    BY <1>1, CommitFits DEF IInv, Books, Held, CloseOf
<1>4. Plant' /\ Sources'
    BY <1>1 DEF IInv, Plant, Sources, Source, sourceVars
<1>5. Requests'
    BY <1>1, <1>2 DEF IInv, Requests, Same, Source, sourceVars
<1>6. Reloading' = Reloading /\ Held' = Held
    BY <1>1, <1>2 DEF Reloading, Held, CloseOf, Same
<1>7. Quiet'
    BY <1>1 DEF Quiet
<1>8. Following' /\ AtRest' /\ Replaced'
    BY <1>1, <1>2, <1>6 DEF IInv, Following, Learnt, Clean, AtRest, Replaced, Same, Source,
                            sourceVars
<1> QED
    BY <1>3, <1>4, <1>5, <1>7, <1>8 DEF IInv

\* A sample without a device: the reloads it meets are tangled.
LEMMA StartRecoveryStep ==
    ASSUME IInv, StartRecovery PROVE IInv'
<1>1. /\ UNCHANGED <<saved, roster, sourceVars, open, rows, buffer, stored, stop, counters,
                     late>>
      /\ poll # 0 /\ poll' = 0
      /\ recovery' = [flag |-> TRUE, reading |-> TRUE, query |-> saved.dev]
      /\ tangled' = IF Reloading # {} THEN "yes" ELSE tangled
      /\ writer' = [w \in Writers |-> [writer[w] EXCEPT !.heals = FALSE]]
    BY DEF StartRecovery
<1>2. ASSUME NEW w \in Writers
      PROVE  Same(writer[w], writer'[w]) /\ writer'[w].heals = FALSE
    <2>1. writer[w] \in WriterType /\ writer'[w] = [writer[w] EXCEPT !.heals = FALSE]
        BY <1>1 DEF IInv, Requests
    <2> QED
        BY <2>1 DEF Same, WriterType
<1>3. writer' \in [Writers -> WriterType]
    BY <1>1, <1>2 DEF Same
<1>4. Books'
    BY <1>1 DEF IInv, Books, Held, CloseOf, counters
<1>5. Plant'
    <2>1. saved.dev \in Device
        BY DEF IInv, Plant
    <2>2. /\ recovery' \in [flag : BOOLEAN, reading : BOOLEAN, query : Device]
          /\ recovery'.flag /\ recovery'.reading
        BY <1>1, <2>1
    <2>3. tangled' \in {"no", "was", "yes"}
        BY <1>1 DEF IInv, Plant
    <2> QED
        BY <1>1, <2>2, <2>3 DEF IInv, Plant
<1>6. Sources'
    <2>1. ends \in Seq(Endpoint) /\ Source \in Nat
        BY DEF IInv, Sources, Source
    <2> QED
        BY <1>1, <2>1 DEF IInv, Sources, Source, sourceVars
<1>7. Requests'
    BY <1>1, <1>2, <1>3 DEF IInv, Requests, Same, Source, sourceVars
<1>8. Reloading' = Reloading /\ Held' = Held
    BY <1>1, <1>2 DEF Reloading, Held, CloseOf, Same
<1>9. Quiet'
    BY <1>1 DEF IInv, Quiet
<1>10. Following'
    BY <1>1, <1>2, <1>8 DEF Following, Clean, Reloading
<1>11. AtRest'
    BY <1>1, <1>8 DEF IInv, AtRest, Source, sourceVars
<1>12. Replaced'
    <2>1. tangled' = "no" => tangled = "no"
        BY <1>1
    <2>2. \A w \in Writers : writer'[w].pc = writer[w].pc /\ writer'[w].prev = writer[w].prev
        BY <1>2 DEF Same
    <2>3. Source' = Source /\ closed' = closed
        BY <1>1 DEF Source, sourceVars
    <2> QED
        BY <2>1, <2>2, <2>3 DEF IInv, Replaced
<1> QED
    BY <1>4, <1>5, <1>6, <1>7, <1>9, <1>10, <1>11, <1>12 DEF IInv

\* No source is replaced, and none that is to be closed is dropped.
LEMMA ReplacedKept ==
    ASSUME IInv, tangled' = "no" => tangled = "no", Source' = Source, closed' = closed,
           \A v \in Writers : writer[v].pc = "close" =>
             writer'[v].pc = "close" /\ writer'[v].prev = writer[v].prev,
           \A v \in Writers : writer'[v].pc = "swap" =>
             writer[v].pc = "swap" /\ writer'[v].prev = writer[v].prev
    PROVE  Replaced'
<1> SUFFICES ASSUME tangled' = "no"
             PROVE  /\ \A k \in 1..(Source' - 1) :
                         \/ k \in closed'
                         \/ \E v \in Writers : writer'[v].pc = "close" /\ writer'[v].prev = k
                    /\ \A v \in Writers : writer'[v].pc = "swap" => writer'[v].prev = Source'
    BY DEF Replaced
<1>1. /\ \A k \in 1..(Source - 1) :
           k \in closed \/ \E v \in Writers : writer[v].pc = "close" /\ writer[v].prev = k
      /\ \A v \in Writers : writer[v].pc = "swap" => writer[v].prev = Source
    BY DEF IInv, Replaced
<1>2. ASSUME NEW k \in 1..(Source - 1), k \notin closed
      PROVE  \E v \in Writers : writer'[v].pc = "close" /\ writer'[v].prev = k
    <2>1. PICK v \in Writers : writer[v].pc = "close" /\ writer[v].prev = k
        BY <1>1, <1>2
    <2> QED
        BY <2>1
<1>3. \A v \in Writers : writer'[v].pc = "swap" => writer'[v].prev = Source'
    BY <1>1
<1> QED
    BY <1>2, <1>3

\* A step of request w: if its outcome can be told, no other request is under way.
LEMMA FollowingKept ==
    ASSUME IInv, NEW w \in Writers, writer[w].pc # "idle", recovery' = recovery,
           tangled' # "yes" => tangled # "yes" \/ writer[w].heals,
           writer'[w].heals => writer[w].heals,
           \A v \in Writers : v # w => writer'[v] = writer[v],
           Clean(w) => Learnt(w)'
    PROVE  Following'
<1>1. ASSUME NEW v \in Writers, Clean(v)'
      PROVE  /\ \A u \in Writers : writer'[u].pc # "idle" => u = v
             /\ ~recovery'.reading /\ Learnt(v)'
    <2>1. writer'[v].pc # "idle" /\ (tangled' # "yes" \/ writer'[v].heals)
        BY <1>1 DEF Clean
    <2>2. v = w
        <3>1. ASSUME v # w PROVE FALSE
            <4>1. writer'[v] = writer[v]
                BY <3>1
            <4>2. Clean(v) \/ Clean(w)
                BY <2>1, <4>1 DEF Clean
            <4> QED
                BY <2>1, <3>1, <4>1, <4>2 DEF IInv, Following
        <3> QED
            BY <3>1
    <2>3. Clean(w)
        BY <2>1, <2>2 DEF Clean
    <2>4. (\A u \in Writers : writer[u].pc # "idle" => u = w) /\ ~recovery.reading
        BY <2>3 DEF IInv, Following
    <2>5. \A u \in Writers : writer'[u].pc # "idle" => u = w
        BY <2>4
    <2> QED
        BY <2>2, <2>3, <2>4, <2>5
<1> QED
    BY <1>1 DEF Following, Learnt

\* A route writes the plant: its reload starts alone, or all are tangled.
LEMMA SaveStep ==
    ASSUME IInv, NEW w \in Writers, Save(w) PROVE IInv'
<1> DEFINE alone == Reloading = {} /\ ~recovery.reading
<1>1. /\ UNCHANGED <<roster, sourceVars, poll, open, rows, buffer, stored, recovery, stop,
                     taken, faults>>
      /\ writer[w].pc = "idle" /\ saved' \in [dev : Device, end : Endpoint]
      /\ late' = (late \/ stop # "no") /\ tangled' = IF alone THEN tangled ELSE "yes"
      /\ writer' = [v \in Writers |->
                      IF v = w
                      THEN [Idle EXCEPT !.pc = "reload", !.heals = alone /\ tangled = "yes"]
                      ELSE [writer[v] EXCEPT !.heals = FALSE]]
    BY DEF Save
<1>2. /\ writer'[w] \in WriterType /\ writer'[w].pc = "reload" /\ writer'[w].prev = 0
      /\ writer'[w].heals => alone
    <2>1. writer'[w] = [Idle EXCEPT !.pc = "reload", !.heals = alone /\ tangled = "yes"]
        BY <1>1
    <2> DEFINE h == alone /\ tangled = "yes"
    <2>2. h \in BOOLEAN /\ (h => alone)
        OBVIOUS
    <2>3. writer'[w] = [Idle EXCEPT !.pc = "reload", !.heals = h]
        BY <2>1
    <2> HIDE DEF alone, h
    <2>4. writer'[w] \in WriterType /\ writer'[w].pc = "reload" /\ writer'[w].prev = 0
        <3>1. writer'[w] = [pc |-> "reload", before |-> None, query |-> None, end |-> None,
                            prev |-> 0, heals |-> h, waits |-> FALSE]
            BY <2>3 DEF Idle
        <3> QED
            BY <2>2, <3>1 DEF WriterType, Steps, Device, Endpoint
    <2>5. writer'[w].heals = h
        BY <2>3 DEF Idle
    <2> QED
        BY <2>2, <2>4, <2>5
<1>3. ASSUME NEW v \in Writers, v # w
      PROVE  Same(writer[v], writer'[v]) /\ writer'[v].heals = FALSE
    <2>1. writer[v] \in WriterType /\ writer'[v] = [writer[v] EXCEPT !.heals = FALSE]
        BY <1>1, <1>3 DEF IInv, Requests
    <2> QED
        BY <2>1 DEF Same, WriterType
<1>4. writer' \in [Writers -> WriterType]
    <2>1. \A v \in Writers : writer'[v] \in WriterType
        BY <1>2, <1>3 DEF Same
    <2> QED
        BY <1>1, <2>1
<1>5. Books' /\ Sources'
    BY <1>1 DEF IInv, Books, Held, CloseOf, Sources, Source, sourceVars
<1>6. Plant'
    <2>1. tangled' \in {"no", "was", "yes"} /\ late' \in BOOLEAN
        BY <1>1 DEF IInv, Plant
    <2> QED
        BY <1>1, <2>1 DEF IInv, Plant
<1>7. Source' = Source /\ Source \in Nat /\ closed' = closed
    <2>1. ends \in Seq(Endpoint)
        BY DEF IInv, Sources
    <2>2. Len(ends) \in Nat
        BY <2>1
    <2>3. ends' = ends /\ closed' = closed
        BY <1>1 DEF sourceVars
    <2> QED
        BY <2>2, <2>3 DEF Source
<1>8. Requests'
    <2>1. 0 \in 0..Source
        BY <1>7
    <2> QED
        BY <1>2, <1>3, <1>4, <1>7, <2>1 DEF IInv, Requests, Same
<1>9. Quiet'
    BY <1>1 DEF Quiet
<1>10. Following'
    <2>1. CASE alone
        <3>1. \A v \in Writers : writer'[v].pc # "idle" => v = w
            BY <1>3, <2>1 DEF Reloading, Same
        <3>2. ~recovery'.reading
            BY <1>1, <2>1
        <3> QED
            BY <1>2, <3>1, <3>2 DEF Following, Learnt, Clean
    <2>2. CASE ~alone
        <3>1. tangled' = "yes" /\ \A v \in Writers : ~writer'[v].heals
            BY <1>1, <1>2, <1>3, <2>2
        <3> QED
            BY <3>1 DEF Following, Clean
    <2> QED
        BY <2>1, <2>2
<1>11. AtRest'
    BY <1>2 DEF AtRest, Reloading
<1>12. Replaced'
    <2>1. tangled' = "no" => tangled = "no"
        BY <1>1
    <2>2. \A v \in Writers : v # w => writer'[v].pc = writer[v].pc /\ writer'[v].prev = writer[v].prev
        BY <1>3 DEF Same
    <2> QED
        BY <1>1, <1>2, <1>7, <2>1, <2>2, ReplacedKept
<1> QED
    BY <1>5, <1>6, <1>8, <1>9, <1>10, <1>11, <1>12 DEF IInv

\* While a reload is under way the shutdown has not started, or is late.
LEMMA NotQuiet ==
    ASSUME IInv, NEW w \in Writers, writer[w].pc # "idle"
    PROVE  stop = "no" \/ late
    BY DEF IInv, Quiet, Reloading

\* After a failure nothing can be told of any reload under way.
LEMMA NothingTold ==
    ASSUME IInv, NEW w \in Writers, writer[w].pc # "idle", tangled' = "yes",
           ~writer'[w].heals, \A v \in Writers : v # w => writer'[v] = writer[v]
    PROVE  Following' /\ AtRest' /\ Replaced'
<1>1. ASSUME NEW v \in Writers, Clean(v)' PROVE FALSE
    <2>1. v # w /\ writer[v].heals /\ writer[v].pc # "idle"
        BY <1>1 DEF Clean
    <2>2. Clean(v)
        BY <2>1 DEF Clean
    <2> QED
        BY <2>1, <2>2 DEF IInv, Following
<1> QED
    BY <1>1 DEF Following, AtRest, Replaced

\* The roster before and the query.
LEMMA ReloadStep ==
    ASSUME IInv, NEW w \in Writers, Reload(w) PROVE IInv'
<1>1. /\ UNCHANGED <<saved, roster, sourceVars, poll, open, rows, buffer, stored, recovery,
                     stop, counters, tangled, late>>
      /\ writer[w].pc = "reload"
      /\ writer' = [writer EXCEPT ![w].pc = "install", ![w].before = roster,
                                  ![w].query = saved.dev]
    BY DEF Reload, At
<1>2. writer \in [Writers -> WriterType] /\ roster \in Device /\ saved.dev \in Device
    BY DEF IInv, Requests, Plant
<1>3. /\ writer'[w] \in WriterType /\ writer'[w].pc = "install" /\ writer'[w].query = saved.dev
      /\ writer'[w].prev = writer[w].prev /\ writer'[w].heals = writer[w].heals
    BY <1>1, <1>2 DEF WriterType, Steps
<1>4. \A v \in Writers : v # w => writer'[v] = writer[v]
    BY <1>1, <1>2
<1>5. writer' \in [Writers -> WriterType]
    BY <1>1, <1>2, <1>3, <1>4
<1>6. Books' /\ Sources' /\ Plant'
    BY <1>1 DEF IInv, Books, Held, CloseOf, Sources, Source, Plant, sourceVars, counters
<1>7. Source' = Source /\ closed' = closed /\ Held' = Held /\ ends' = ends
    BY <1>1 DEF Source, sourceVars, Held, CloseOf
<1>8. Requests'
    BY <1>3, <1>4, <1>5, <1>7 DEF IInv, Requests
<1>9. Quiet'
    BY <1>1, NotQuiet DEF Quiet
<1>10. Following'
    <2>1. Clean(w) => Learnt(w)'
        BY <1>1, <1>3 DEF Learnt
    <2> QED
        BY <1>1, <1>3, <1>4, <2>1, FollowingKept
<1>11. AtRest'
    BY <1>3 DEF AtRest, Reloading
<1>12. Replaced'
    BY <1>1, <1>3, <1>4, <1>7, ReplacedKept
<1> QED
    BY <1>6, <1>8, <1>9, <1>10, <1>11, <1>12 DEF IInv

\* The query fails: from here on nothing can be told.
LEMMA ReloadFailsStep ==
    ASSUME IInv, NEW w \in Writers, ReloadFails(w) PROVE IInv'
<1>1. /\ UNCHANGED <<saved, roster, sourceVars, poll, open, rows, buffer, stored, recovery,
                     stop, taken, writes, late>>
      /\ writer[w].pc = "reload" /\ tangled' = "yes"
      /\ writer' = [writer EXCEPT ![w].pc = "endpoint", ![w].heals = FALSE]
    BY DEF ReloadFails, At
<1>2. writer \in [Writers -> WriterType]
    BY DEF IInv, Requests
<1>3. /\ writer'[w] \in WriterType /\ writer'[w].pc = "endpoint" /\ writer'[w].heals = FALSE
      /\ writer'[w].prev = writer[w].prev
    BY <1>1, <1>2 DEF WriterType, Steps
<1>4. \A v \in Writers : v # w => writer'[v] = writer[v]
    BY <1>1, <1>2
<1>5. writer' \in [Writers -> WriterType]
    BY <1>1, <1>2, <1>3, <1>4
<1>6. Books' /\ Sources' /\ Plant'
    BY <1>1 DEF IInv, Books, Held, CloseOf, Sources, Source, Plant, sourceVars
<1>7. Source' = Source
    BY <1>1 DEF Source, sourceVars
<1>8. Requests'
    BY <1>3, <1>4, <1>5, <1>7 DEF IInv, Requests
<1>9. Quiet'
    BY <1>1, NotQuiet DEF Quiet
<1>10. Following' /\ AtRest' /\ Replaced'
    BY <1>1, <1>3, <1>4, NothingTold
<1> QED
    BY <1>6, <1>8, <1>9, <1>10 DEF IInv

\* The new roster; the device that left it is forgotten.
LEMMA InstallStep ==
    ASSUME IInv, NEW w \in Writers, Install(w) PROVE IInv'
<1>1. /\ UNCHANGED <<saved, sourceVars, poll, stored, recovery, stop, counters, tangled,
                     late>>
      /\ writer[w].pc = "install" /\ roster' = writer[w].query
      /\ Forget(writer[w].before) \/ UNCHANGED <<open, rows, buffer>>
      /\ writer' = [writer EXCEPT ![w].pc = "endpoint", ![w].before = None, ![w].query = None]
    BY DEF Install, At
<1>2. writer \in [Writers -> WriterType] /\ None \in Device
    BY DEF IInv, Requests, Device
<1>3. /\ writer'[w] \in WriterType /\ writer'[w].pc = "endpoint"
      /\ writer'[w].prev = writer[w].prev /\ writer'[w].heals = writer[w].heals
    BY <1>1, <1>2 DEF WriterType, Steps
<1>4. \A v \in Writers : v # w => writer'[v] = writer[v]
    BY <1>1, <1>2
<1>5. writer' \in [Writers -> WriterType] /\ writer[w].query \in Device
    BY <1>1, <1>2, <1>3, <1>4 DEF WriterType
<1>6. Books'
    <2>1. CASE Forget(writer[w].before)
        BY <1>1, <2>1, ForgetKeeps DEF IInv, counters
    <2>2. CASE UNCHANGED <<open, rows, buffer>>
        BY <1>1, <2>2 DEF IInv, Books, Held, CloseOf, counters
    <2> QED
        BY <1>1, <2>1, <2>2
<1>7. Source' = Source /\ closed' = closed /\ ends' = ends
    BY <1>1 DEF Source, sourceVars
<1>8. Sources' /\ Plant'
    BY <1>1, <1>5 DEF IInv, Sources, Source, Plant, sourceVars
<1>9. Requests'
    BY <1>3, <1>4, <1>5, <1>7 DEF IInv, Requests
<1>10. Quiet'
    BY <1>1, NotQuiet DEF Quiet
<1>11. Following'
    <2>1. Clean(w) => writer[w].query = saved.dev
        BY <1>1 DEF IInv, Following, Learnt
    <2>2. Clean(w) => Learnt(w)'
        BY <1>1, <1>3, <2>1 DEF Learnt
    <2> QED
        BY <1>1, <1>3, <1>4, <2>2, FollowingKept
<1>12. AtRest'
    BY <1>3 DEF AtRest, Reloading
<1>13. Replaced'
    BY <1>1, <1>3, <1>4, <1>7, ReplacedKept
<1> QED
    BY <1>6, <1>8, <1>9, <1>10, <1>11, <1>12, <1>13 DEF IInv

\* The endpoint; every interval of the source that goes is written out.
LEMMA LoadEndpointStep ==
    ASSUME IInv, NEW w \in Writers, LoadEndpoint(w) PROVE IInv'
<1>1. /\ UNCHANGED <<saved, roster, sourceVars, poll, stored, recovery, stop, counters,
                     tangled, late>>
      /\ writer[w].pc = "endpoint" /\ Drain
      /\ writer' = [writer EXCEPT ![w].pc = "flush", ![w].end = Target(saved),
                                  ![w].waits = Flushes(Closed)]
    BY DEF LoadEndpoint, At
<1>2. writer \in [Writers -> WriterType] /\ Target(saved) \in Endpoint /\ Target(saved)' = Target(saved)
    BY <1>1 DEF IInv, Requests, Plant, Endpoint, Target
<1>3. /\ writer'[w] \in WriterType /\ writer'[w].pc = "flush" /\ writer'[w].end = Target(saved)
      /\ writer'[w].prev = writer[w].prev /\ writer'[w].heals = writer[w].heals
    <2> DEFINE f == Flushes(Closed)
    <2>1. f \in BOOLEAN
        BY DEF Flushes
    <2>2. writer' = [writer EXCEPT ![w].pc = "flush", ![w].end = Target(saved), ![w].waits = f]
        BY <1>1
    <2> HIDE DEF f
    <2> QED
        BY <1>2, <2>1, <2>2 DEF WriterType, Steps
<1>4. \A v \in Writers : v # w => writer'[v] = writer[v]
    BY <1>1, <1>2
<1>5. writer' \in [Writers -> WriterType]
    BY <1>1, <1>2, <1>3, <1>4
<1>6. Books' /\ Held' = {}
    BY <1>1, DrainKeeps DEF IInv, counters
<1>7. Source' = Source /\ closed' = closed /\ ends' = ends
    BY <1>1 DEF Source, sourceVars
<1>8. Sources' /\ Plant'
    BY <1>1 DEF IInv, Sources, Source, Plant, sourceVars
<1>9. Requests'
    BY <1>2, <1>3, <1>4, <1>5, <1>7 DEF IInv, Requests
<1>10. Quiet'
    BY <1>1, NotQuiet DEF Quiet
<1>11. Following'
    <2>1. Clean(w) => roster = saved.dev
        BY <1>1 DEF IInv, Following, Learnt
    <2>2. Clean(w) => Learnt(w)'
        BY <1>1, <1>3, <1>6, <2>1 DEF Learnt
    <2> QED
        BY <1>1, <1>3, <1>4, <2>2, FollowingKept
<1>12. AtRest'
    BY <1>3 DEF AtRest, Reloading
<1>13. Replaced'
    BY <1>1, <1>3, <1>4, <1>7, ReplacedKept
<1> QED
    BY <1>6, <1>8, <1>9, <1>10, <1>11, <1>12, <1>13 DEF IInv

\* The read of the plant fails: the loop will idle, and nothing can be told.
LEMMA EndpointFailsStep ==
    ASSUME IInv, NEW w \in Writers, EndpointFails(w) PROVE IInv'
<1>1. /\ UNCHANGED <<saved, roster, sourceVars, poll, stored, recovery, stop, taken, writes,
                     late>>
      /\ writer[w].pc = "endpoint" /\ Drain /\ tangled' = "yes"
      /\ writer' = [writer EXCEPT ![w].pc = "flush", ![w].end = None, ![w].heals = FALSE,
                                  ![w].waits = Flushes(Closed)]
    BY DEF EndpointFails, At
<1>2. writer \in [Writers -> WriterType] /\ None \in Endpoint
    BY DEF IInv, Requests, Endpoint
<1>3. /\ writer'[w] \in WriterType /\ writer'[w].pc = "flush" /\ writer'[w].heals = FALSE
      /\ writer'[w].prev = writer[w].prev
    <2> DEFINE f == Flushes(Closed)
    <2>1. f \in BOOLEAN
        BY DEF Flushes
    <2>2. writer' = [writer EXCEPT ![w].pc = "flush", ![w].end = None, ![w].heals = FALSE,
                                   ![w].waits = f]
        BY <1>1
    <2> HIDE DEF f
    <2> QED
        BY <1>2, <2>1, <2>2 DEF WriterType, Steps
<1>4. \A v \in Writers : v # w => writer'[v] = writer[v]
    BY <1>1, <1>2
<1>5. writer' \in [Writers -> WriterType]
    BY <1>1, <1>2, <1>3, <1>4
<1>6. Books'
    BY <1>1, DrainKeeps DEF IInv
<1>7. Source' = Source
    BY <1>1 DEF Source, sourceVars
<1>8. Sources' /\ Plant'
    BY <1>1 DEF IInv, Sources, Source, Plant, sourceVars
<1>9. Requests'
    BY <1>3, <1>4, <1>5, <1>7 DEF IInv, Requests
<1>10. Quiet'
    BY <1>1, NotQuiet DEF Quiet
<1>11. Following' /\ AtRest' /\ Replaced'
    BY <1>1, <1>3, <1>4, NothingTold
<1> QED
    BY <1>6, <1>8, <1>9, <1>10, <1>11 DEF IInv

\* The settings cannot be read: the source stays, and so does what was drained.
LEMMA SettingsFailStep ==
    ASSUME IInv, NEW w \in Writers, SettingsFail(w) PROVE IInv'
<1>1. /\ UNCHANGED <<saved, roster, sourceVars, poll, open, rows, buffer, stored, recovery,
                     taken, writes>>
      /\ writer[w].pc = "swap" /\ tangled' = "yes"
      /\ stop' = (IF w = Boot THEN "done" ELSE stop) /\ late' = (late \/ w = Boot)
      /\ writer' = [writer EXCEPT ![w] = Idle]
    BY DEF SettingsFail, At
<1>2. writer \in [Writers -> WriterType] /\ ends \in Seq(Endpoint)
    BY DEF IInv, Requests, Sources
<1>3. /\ writer'[w] \in WriterType /\ writer'[w].pc = "idle" /\ writer'[w].heals = FALSE
      /\ writer'[w].prev = 0
    <2>1. writer'[w] = Idle
        BY <1>1, <1>2
    <2> QED
        BY <2>1 DEF Idle, WriterType, Steps, Device, Endpoint
<1>4. \A v \in Writers : v # w => writer'[v] = writer[v]
    BY <1>1, <1>2
<1>5. writer' \in [Writers -> WriterType]
    BY <1>1, <1>2, <1>3, <1>4
<1>6. Books' /\ Sources' /\ Source' = Source
    BY <1>1 DEF IInv, Books, Held, CloseOf, Sources, Source, sourceVars
<1>7. Plant'
    <2>1. stop' \in {"no", "flush", "source", "done"} /\ late' \in BOOLEAN
        BY <1>1 DEF IInv, Plant
    <2> QED
        BY <1>1, <2>1 DEF IInv, Plant
<1>8. Requests'
    <2>1. 0 \in 0..Source
        BY <1>2 DEF Source
    <2> QED
        BY <1>3, <1>4, <1>5, <1>6, <2>1 DEF IInv, Requests
<1>9. Quiet'
    BY <1>1, NotQuiet DEF Quiet
<1>10. Following' /\ AtRest' /\ Replaced'
    BY <1>1, <1>3, <1>4, NothingTold
<1> QED
    BY <1>6, <1>7, <1>8, <1>9, <1>10 DEF IInv

\* The source that will be replaced.
LEMMA TakePreviousStep ==
    ASSUME IInv, NEW w \in Writers, TakePrevious(w) PROVE IInv'
<1>1. /\ UNCHANGED <<saved, roster, sourceVars, poll, open, rows, buffer, stored, recovery,
                     stop, counters, tangled, late>>
      /\ writer[w].pc = "flush"
      /\ writer' = [writer EXCEPT ![w].pc = "swap", ![w].prev = Source]
    BY DEF TakePrevious, At
<1>2. writer \in [Writers -> WriterType] /\ ends \in Seq(Endpoint)
    BY DEF IInv, Requests, Sources
<1>3. Source \in Nat
    BY <1>2 DEF Source
<1>4. /\ writer'[w] \in WriterType /\ writer'[w].pc = "swap" /\ writer'[w].prev = Source
      /\ writer'[w].end = writer[w].end /\ writer'[w].heals = writer[w].heals
    BY <1>1, <1>2, <1>3 DEF WriterType, Steps
<1>5. \A v \in Writers : v # w => writer'[v] = writer[v]
    BY <1>1, <1>2
<1>6. writer' \in [Writers -> WriterType]
    BY <1>1, <1>2, <1>4, <1>5
<1>7. Books' /\ Sources' /\ Plant'
    BY <1>1 DEF IInv, Books, Held, CloseOf, Sources, Source, Plant, sourceVars, counters
<1>8. Source' = Source /\ closed' = closed /\ Held' = Held
    BY <1>1 DEF Source, sourceVars, Held, CloseOf
<1>9. Requests'
    <2>1. Source \in 0..Source
        BY <1>3
    <2> QED
        BY <1>1, <1>4, <1>5, <1>6, <1>8, <2>1 DEF IInv, Requests
<1>10. Quiet'
    BY <1>1, NotQuiet DEF Quiet
<1>11. Following'
    <2>1. Clean(w) => roster = saved.dev /\ Held \subseteq {roster} /\ writer[w].end = Target(saved)
        BY <1>1 DEF IInv, Following, Learnt
    <2>2. Clean(w) => Learnt(w)'
        BY <1>1, <1>4, <1>8, <2>1 DEF Learnt
    <2> QED
        BY <1>1, <1>4, <1>5, <2>2, FollowingKept
<1>12. AtRest'
    BY <1>4 DEF AtRest, Reloading
<1>13. Replaced'
    <2> SUFFICES ASSUME tangled' = "no"
                 PROVE  /\ \A k \in 1..(Source' - 1) :
                             \/ k \in closed'
                             \/ \E v \in Writers : writer'[v].pc = "close" /\ writer'[v].prev = k
                        /\ \A v \in Writers : writer'[v].pc = "swap" => writer'[v].prev = Source'
        BY DEF Replaced
    <2>1. /\ \A k \in 1..(Source - 1) :
               k \in closed \/ \E v \in Writers : writer[v].pc = "close" /\ writer[v].prev = k
          /\ \A v \in Writers : writer[v].pc = "swap" => writer[v].prev = Source
        BY <1>1 DEF IInv, Replaced
    <2>2. ASSUME NEW k \in 1..(Source - 1), k \notin closed
          PROVE  \E v \in Writers : writer'[v].pc = "close" /\ writer'[v].prev = k
        <3>1. PICK v \in Writers : writer[v].pc = "close" /\ writer[v].prev = k
            BY <2>1, <2>2
        <3>2. writer'[v] = writer[v]
            BY <1>1, <1>5, <3>1
        <3> QED
            BY <3>1, <3>2
    <2>3. \A v \in Writers : writer'[v].pc = "swap" => writer'[v].prev = Source'
        BY <1>4, <1>5, <1>8, <2>1
    <2> QED
        BY <1>8, <2>2, <2>3
<1> QED
    BY <1>7, <1>9, <1>10, <1>11, <1>12, <1>13 DEF IInv

\* The new source is live; the one before is about to be closed.
LEMMA SwapStep ==
    ASSUME IInv, NEW w \in Writers, Swap(w) PROVE IInv'
<1>1. /\ UNCHANGED <<saved, roster, poll, open, rows, buffer, stored, recovery, stop,
                     counters, late, closed>>
      /\ writer[w].pc = "swap" /\ ends' = Append(ends, writer[w].end) /\ timer' = TRUE
      /\ writer' = [writer EXCEPT ![w] = IF @.prev = 0 THEN Idle ELSE [@ EXCEPT !.pc = "close"]]
      /\ tangled' = IF writer[w].heals THEN "was" ELSE tangled
    BY DEF Swap, At
<1>2. /\ writer \in [Writers -> WriterType] /\ ends \in Seq(Endpoint)
      /\ writer[w].end \in Endpoint /\ writer[w].prev \in 0..Source
    BY <1>1 DEF IInv, Requests, Sources, WriterType
<1>3. /\ Source \in Nat /\ ends' \in Seq(Endpoint) /\ Source' = Source + 1
      /\ ends'[Source'] = writer[w].end
    BY <1>1, <1>2 DEF Source
<1>4. /\ writer'[w] \in WriterType
      /\ writer[w].prev = 0 => writer'[w].pc = "idle" /\ writer'[w].heals = FALSE /\ writer'[w].prev = 0
      /\ writer[w].prev # 0 => /\ writer'[w].pc = "close" /\ writer'[w].prev = writer[w].prev
                               /\ writer'[w].end = writer[w].end
                               /\ writer'[w].heals = writer[w].heals
    <2>1. CASE writer[w].prev = 0
        <3>1. writer'[w] = Idle
            BY <1>1, <1>2, <2>1
        <3> QED
            BY <2>1, <3>1 DEF Idle, WriterType, Steps, Device, Endpoint
    <2>2. CASE writer[w].prev # 0
        <3>1. writer'[w] = [writer[w] EXCEPT !.pc = "close"] /\ writer[w] \in WriterType
            BY <1>1, <1>2, <2>2
        <3> QED
            BY <2>2, <3>1 DEF WriterType, Steps
    <2> QED
        BY <2>1, <2>2
<1>5. \A v \in Writers : v # w => writer'[v] = writer[v]
    BY <1>1, <1>2
<1>6. writer' \in [Writers -> WriterType]
    <2>1. \A v \in Writers : writer'[v] \in WriterType
        BY <1>2, <1>4, <1>5
    <2>2. writer' = [v \in Writers |-> writer'[v]]
        BY <1>1, <1>2
    <2> QED
        BY <2>1, <2>2
<1>7. Books' /\ Held' = Held
    BY <1>1 DEF IInv, Books, Held, CloseOf, counters
<1>8. Sources'
    <2>1. closed \subseteq 1..Source /\ poll \in 0..Source /\ (poll # 0 => ends[poll] # None)
        BY DEF IInv, Sources
    <2>2. closed \subseteq 1..(Source + 1) /\ poll \in 0..(Source + 1)
        BY <1>3, <2>1
    <2>3. poll # 0 => ends'[poll] = ends[poll]
        BY <1>1, <1>2, <2>1 DEF Source
    <2> QED
        BY <1>1, <1>3, <2>1, <2>2, <2>3 DEF Sources
<1>9. Plant'
    <2>1. tangled' \in {"no", "was", "yes"}
        BY <1>1 DEF IInv, Plant
    <2> QED
        BY <1>1, <2>1 DEF IInv, Plant
<1>10. Requests'
    <2>1. \A v \in Writers : writer'[v].prev \in 0..Source
        BY <1>2, <1>4, <1>5 DEF IInv, Requests
    <2>2. \A v \in Writers : writer'[v].prev \in 0..Source'
        BY <1>3, <2>1
    <2> QED
        BY <1>1, <1>2, <1>4, <1>5, <1>6, <2>2 DEF IInv, Requests
<1>11. Quiet'
    BY <1>1, NotQuiet DEF Quiet
<1>12. /\ tangled' # "yes" => tangled # "yes" \/ writer[w].heals
       /\ tangled' = "no" => tangled = "no"
       /\ writer'[w].heals => writer[w].heals
    BY <1>1, <1>4
<1>13. Clean(w) => /\ roster = saved.dev /\ Held \subseteq {roster} /\ writer[w].end = Target(saved)
                   /\ ~recovery.reading
    BY <1>1 DEF IInv, Following, Learnt
<1>14. Following'
    <2>1. Clean(w) => Learnt(w)'
        BY <1>1, <1>3, <1>4, <1>7, <1>13 DEF Learnt
    <2> QED
        BY <1>1, <1>5, <1>12, <2>1, FollowingKept
<1>15. AtRest'
    <2> SUFFICES ASSUME tangled' # "yes"
                 PROVE  /\ roster' = saved'.dev /\ Held' \subseteq {roster'}
                        /\ ends'[Source'] = Target(saved)'
                        /\ recovery'.reading => recovery'.query = saved'.dev
        BY DEF AtRest
    <2>1. Clean(w)
        BY <1>1, <1>12 DEF Clean
    <2> QED
        BY <1>1, <1>3, <1>7, <1>13, <2>1
<1>16. Replaced'
    <2> SUFFICES ASSUME tangled' = "no"
                 PROVE  /\ \A k \in 1..(Source' - 1) :
                             \/ k \in closed'
                             \/ \E v \in Writers : writer'[v].pc = "close" /\ writer'[v].prev = k
                        /\ \A v \in Writers : writer'[v].pc = "swap" => writer'[v].prev = Source'
        BY DEF Replaced
    <2>1. /\ \A k \in 1..(Source - 1) :
               k \in closed \/ \E v \in Writers : writer[v].pc = "close" /\ writer[v].prev = k
          /\ writer[w].prev = Source
        BY <1>1, <1>12 DEF IInv, Replaced
    <2>2. ASSUME NEW k \in 1..(Source' - 1), k \notin closed
          PROVE  \E v \in Writers : writer'[v].pc = "close" /\ writer'[v].prev = k
        <3>1. k \in 1..(Source - 1) \/ (k = Source /\ Source # 0)
            BY <1>3
        <3>2. CASE k \in 1..(Source - 1)
            <4>1. PICK v \in Writers : writer[v].pc = "close" /\ writer[v].prev = k
                BY <2>1, <2>2, <3>2
            <4>2. writer'[v] = writer[v]
                BY <1>1, <1>5, <4>1
            <4> QED
                BY <4>1, <4>2
        <3>3. CASE k = Source /\ Source # 0
            BY <1>4, <2>1, <3>3
        <3> QED
            BY <3>1, <3>2, <3>3
    <2>3. ASSUME NEW v \in Writers, writer'[v].pc = "swap" PROVE FALSE
        <3>1. v # w
            BY <1>4, <2>3
        <3>2. writer[v].pc = "swap"
            BY <1>5, <2>3, <3>1
        <3>3. Clean(w)
            BY <1>1, <1>12 DEF Clean
        <3> QED
            BY <3>1, <3>2, <3>3 DEF IInv, Following
    <2> QED
        BY <1>1, <2>2, <2>3
<1> QED
    BY <1>7, <1>8, <1>9, <1>10, <1>11, <1>14, <1>15, <1>16 DEF IInv

\* The replaced source is closed, and the request is done.
LEMMA ClosePreviousStep ==
    ASSUME IInv, NEW w \in Writers, ClosePrevious(w) PROVE IInv'
<1>1. /\ UNCHANGED <<saved, roster, ends, timer, poll, open, rows, buffer, stored, recovery,
                     stop, counters, tangled, late>>
      /\ writer[w].pc = "close" /\ closed' = closed \union {writer[w].prev}
      /\ writer' = [writer EXCEPT ![w] = Idle]
    BY DEF ClosePrevious, At
<1>2. /\ writer \in [Writers -> WriterType] /\ ends \in Seq(Endpoint)
      /\ writer[w].prev \in 0..Source /\ writer[w].prev # 0
    BY <1>1 DEF IInv, Requests, Sources
<1>3. Source \in Nat
    BY <1>2 DEF Source
<1>4. /\ writer'[w] \in WriterType /\ writer'[w].pc = "idle" /\ writer'[w].heals = FALSE
      /\ writer'[w].prev = 0
    <2>1. writer'[w] = Idle
        BY <1>1, <1>2
    <2> QED
        BY <2>1 DEF Idle, WriterType, Steps, Device, Endpoint
<1>5. \A v \in Writers : v # w => writer'[v] = writer[v]
    BY <1>1, <1>2
<1>6. writer' \in [Writers -> WriterType]
    BY <1>1, <1>2, <1>4, <1>5
<1>7. Books' /\ Plant' /\ Held' = Held /\ Source' = Source
    BY <1>1 DEF IInv, Books, Held, CloseOf, Source, Plant, counters
<1>8. Sources'
    <2>1. writer[w].prev \in 1..Source
        BY <1>2, <1>3
    <2> QED
        BY <1>1, <1>7, <2>1 DEF IInv, Sources
<1>9. Requests'
    <2>1. 0 \in 0..Source
        BY <1>3
    <2> QED
        BY <1>4, <1>5, <1>6, <1>7, <2>1 DEF IInv, Requests
<1>10. Quiet'
    BY <1>1, NotQuiet DEF Quiet
<1>11. Clean(w) => /\ roster = saved.dev /\ Held \subseteq {roster} /\ ends[Source] = Target(saved)
                   /\ ~recovery.reading
    BY <1>1 DEF IInv, Following, Learnt
<1>12. Following'
    <2>1. Clean(w) => Learnt(w)'
        BY <1>4 DEF Learnt
    <2> QED
        BY <1>1, <1>4, <1>5, <2>1, FollowingKept
<1>13. AtRest'
    <2> SUFFICES ASSUME tangled' # "yes"
                 PROVE  /\ roster' = saved'.dev /\ Held' \subseteq {roster'}
                        /\ ends'[Source'] = Target(saved)'
                        /\ recovery'.reading => recovery'.query = saved'.dev
        BY DEF AtRest
    <2>1. Clean(w)
        BY <1>1 DEF Clean
    <2> QED
        BY <1>1, <1>7, <1>11, <2>1
<1>14. Replaced'
    <2> SUFFICES ASSUME tangled' = "no"
                 PROVE  /\ \A k \in 1..(Source' - 1) :
                             \/ k \in closed'
                             \/ \E v \in Writers : writer'[v].pc = "close" /\ writer'[v].prev = k
                        /\ \A v \in Writers : writer'[v].pc = "swap" => writer'[v].prev = Source'
        BY DEF Replaced
    <2>1. /\ \A k \in 1..(Source - 1) :
               k \in closed \/ \E v \in Writers : writer[v].pc = "close" /\ writer[v].prev = k
          /\ \A v \in Writers : writer[v].pc = "swap" => writer[v].prev = Source
        BY <1>1 DEF IInv, Replaced
    <2>2. ASSUME NEW k \in 1..(Source - 1), k \notin closed'
          PROVE  \E v \in Writers : writer'[v].pc = "close" /\ writer'[v].prev = k
        <3>1. PICK v \in Writers : writer[v].pc = "close" /\ writer[v].prev = k
            BY <1>1, <2>1, <2>2
        <3>2. writer'[v] = writer[v]
            BY <1>1, <1>5, <2>2, <3>1
        <3> QED
            BY <3>1, <3>2
    <2>3. \A v \in Writers : writer'[v].pc = "swap" => writer'[v].prev = Source'
        BY <1>4, <1>5, <1>7, <2>1
    <2> QED
        BY <1>7, <2>2, <2>3
<1> QED
    BY <1>7, <1>8, <1>9, <1>10, <1>12, <1>13, <1>14 DEF IInv

\* Every step keeps the invariant.
LEMMA Inductive ==
    IInv /\ [Next]_vars => IInv'
<1> SUFFICES ASSUME IInv, [Next]_vars PROVE IInv'
    OBVIOUS
<1>1. CASE FlushTick
    BY <1>1, FlushTickStep
<1>2. CASE CommitOk
    BY <1>2, CommitOkStep
<1>3. CASE CommitFails
    BY <1>3, CommitFailsStep
<1>4. CASE PollStart \/ PollNowhere
    BY <1>4, PollStep
<1>5. CASE FanOut
    BY <1>5, FanOutStep
<1>6. CASE StartRecovery
    BY <1>6, StartRecoveryStep
<1>7. CASE Recover
    BY <1>7, RecoverStep
<1>8. CASE RecoverFails
    BY <1>8, RecoverFailsStep
<1>9. ASSUME NEW w \in Writers, Save(w) \/ WriterStep(w) \/ WriterFails(w) PROVE IInv'
    <2>1. CASE Save(w)
        BY <2>1, SaveStep
    <2>2. CASE WriterStep(w)
        BY <2>2, ReloadStep, InstallStep, LoadEndpointStep, TakePreviousStep, SwapStep,
           ClosePreviousStep DEF WriterStep
    <2>3. CASE WriterFails(w)
        BY <2>3, ReloadFailsStep, EndpointFailsStep, SettingsFailStep DEF WriterFails
    <2> QED
        BY <1>9, <2>1, <2>2, <2>3
<1>10. CASE Stop
    BY <1>10, StopStep
<1>11. CASE Exit
    BY <1>11, ExitStep
<1>12. CASE UNCHANGED vars
    BY <1>12 DEF vars, IInv, Plant, Sources, Requests, Books, Quiet, Following, Learnt,
                 Clean, AtRest,
                 Replaced, Reloading, Held, CloseOf, Source
<1> QED
    BY <1>1, <1>2, <1>3, <1>4, <1>5, <1>6, <1>7, <1>8, <1>9, <1>10, <1>11, <1>12 DEF Next

\* The invariant holds in every behaviour of the runtime.
LEMMA Invariant ==
    Spec => []IInv
    BY InitHolds, Inductive, PTL DEF Spec

-----------------------------------------------------------------------------
(* The theorems *)

\* runtime.ts, registry.ts, device-writer.ts: every variable keeps its type, and
\* the rows in the database and the buffer are rows that were enqueued.
THEOREM TypeCorrect ==
    Spec => []TypeOK
    BY Invariant, Typed, PTL

\* What the invariant says of the rows is that no reading is lost.
LEMMA Kept ==
    IInv => ReadingsKept
<1> SUFFICES ASSUME IInv PROVE ReadingsKept
    OBVIOUS
<1>1. /\ Fits(buffer, rows, stored) /\ taken = rows + Cardinality(Held)
      /\ rows \in Nat
    BY DEF IInv, Books, Fits, Run
<1>2. stored \union ToSet(Buffered) = 1..rows /\ Run(Buffered, rows)
    BY <1>1, FitsTyped DEF Buffered
<1>3. \A k \in 1..Len(Buffered) : Buffered[k] = rows - Len(Buffered) + k
    BY <1>2 DEF Run
<1>4. ASSUME stop = "done", ~late PROVE Cardinality(stored) = taken
    <2>1. Held = {} /\ buffer.pending = <<>> /\ buffer.batch = <<>>
        BY <1>4 DEF IInv, Quiet
    <2>2. Len(buffer.pending) = 0 /\ Len(buffer.batch) = 0
        BY <2>1, EmptyRun
    <2>3. stored = 1..(rows - Len(buffer.pending) - Len(buffer.batch))
        BY <1>1 DEF Fits
    <2>4. rows - 0 - 0 = rows
        BY <1>1
    <2>5. stored = 1..rows
        BY <2>2, <2>3, <2>4
    <2>6. Cardinality(1..rows) = IF 1 > rows THEN 0 ELSE (rows - 1) + 1
        BY <1>1, FS_Interval
    <2>7. Cardinality(1..rows) = rows
        BY <1>1, <2>6
    <2>8. Cardinality(Held) = 0
        BY <2>1, FS_EmptySet
    <2>9. taken = rows
        BY <1>1, <2>8
    <2> QED
        BY <2>5, <2>7, <2>9
<1> QED
    BY <1>1, <1>2, <1>3, <1>4 DEF ReadingsKept

\* device-writer.ts, history-buffer.ts, runtime.ts stop(): every interval a reading
\* opened is open, buffered in order, or stored; and a shutdown that had nothing
\* outstanding when it flushed leaves every one of them in the database.
THEOREM NoReadingIsLost ==
    Spec => []ReadingsKept
    BY Invariant, Kept, PTL

\* What the invariant says between reloads is that the loop follows the plant.
LEMMA Follows ==
    IInv => SourceFollows
<1> SUFFICES ASSUME IInv, Reloading = {}, ~recovery.reading, tangled # "yes"
             PROVE  /\ roster = saved.dev /\ Held \subseteq {roster}
                    /\ ends[Source] = Target(saved)
                    /\ tangled = "no" => 1..(Source - 1) \subseteq closed
    BY DEF SourceFollows
<1>1. roster = saved.dev /\ Held \subseteq {roster} /\ ends[Source] = Target(saved)
    BY DEF IInv, AtRest
<1>2. ASSUME tangled = "no", NEW k \in 1..(Source - 1) PROVE k \in closed
    <2>1. \A w \in Writers : writer[w].pc = "idle"
        BY DEF Reloading
    <2> QED
        BY <1>2, <2>1 DEF IInv, Replaced
<1> QED
    BY <1>1, <1>2

\* afterPlantWrite(), rebuildInverter(): however reloads, polls, failures and the
\* roster's re-reads interleave, once the last reloads neither overlapped nor failed
\* the loop polls the endpoint of the saved device and idles when there is none or
\* it has no connection, and no replaced source is left open if none ever did.
THEOREM SourceFollowsThePlant ==
    Spec => []SourceFollows
    BY Invariant, Follows, PTL

\* Only a sample opens an interval: it is keyed by the roster's device and taken
\* from the source of its poll.
LEMMA StepKeyed ==
    ASSUME IInv, [Next]_vars
    PROVE  [\A d \in Devices : open'[d] \notin {None, open[d]} =>
              \/ d = saved.dev /\ open'[d] = saved.end
              \/ Reloading # {} \/ recovery.reading \/ tangled = "yes" \/ poll # Source]_vars
<1> DEFINE Own == \A d \in Devices : open'[d] \notin {None, open[d]} =>
              \/ d = saved.dev /\ open'[d] = saved.end
              \/ Reloading # {} \/ recovery.reading \/ tangled = "yes" \/ poll # Source
<1>1. open \in [Devices -> Endpoint]
    BY DEF IInv, Books
<1>2. CASE FanOut
    <2>1. open' \in {open, [open EXCEPT ![roster] = ends[poll]]}
        BY <1>2 DEF FanOut, Commit
    <2>2. ASSUME NEW d \in Devices, open'[d] \notin {None, open[d]}, Reloading = {},
                 tangled # "yes", poll = Source
          PROVE  d = saved.dev /\ open'[d] = saved.end
        <3>1. d = roster /\ open'[d] = ends[poll]
            BY <1>1, <2>1, <2>2
        <3>2. roster # None
            BY <1>2 DEF FanOut
        <3> QED
            BY <2>2, <3>1, <3>2 DEF IInv, AtRest, Target
    <2> QED
        BY <2>2
<1>3. CASE UNCHANGED open
    BY <1>3
<1>4. CASE \A d \in Devices : open'[d] \in {None, open[d]}
    BY <1>4
<1>5. FanOut \/ UNCHANGED open \/ \A d \in Devices : open'[d] \in {None, open[d]}
    <2>1. CASE FlushTick \/ CommitOk \/ CommitFails \/ PollStart \/ PollNowhere \/ FanOut
               \/ StartRecovery \/ Recover \/ RecoverFails \/ Exit \/ UNCHANGED vars
        BY <2>1 DEF FlushTick, CommitOk, CommitFails, PollStart, PollNowhere, StartRecovery,
                    Recover, RecoverFails, Exit, vars
    <2>2. CASE Stop
        BY <2>2 DEF Stop, Drain
    <2>3. ASSUME NEW w \in Writers, Save(w) \/ WriterStep(w) \/ WriterFails(w)
          PROVE  UNCHANGED open \/ \A d \in Devices : open'[d] \in {None, open[d]}
        <3>1. CASE Save(w) \/ Reload(w) \/ TakePrevious(w) \/ Swap(w) \/ ClosePrevious(w)
                   \/ ReloadFails(w) \/ SettingsFail(w)
            BY <3>1 DEF Save, Reload, TakePrevious, Swap, ClosePrevious, ReloadFails, SettingsFail
        <3>2. CASE Install(w)
            BY <3>2 DEF Install, Forget
        <3>3. CASE LoadEndpoint(w) \/ EndpointFails(w)
            BY <3>3 DEF LoadEndpoint, EndpointFails, Drain
        <3> QED
            BY <2>3, <3>1, <3>2, <3>3 DEF WriterStep, WriterFails
    <2> QED
        BY <2>1, <2>2, <2>3 DEF Next
<1> QED
    BY <1>2, <1>3, <1>4, <1>5

\* fanOut(): a reading is kept under a device it was not taken for, or from an
\* endpoint the plant no longer has, only while a reload is under way, by a poll of
\* a source that was replaced, or after a tangle.
THEOREM ReadingsAreKeyedAsRead ==
    Spec => KeyedAsRead
    BY Invariant, StepKeyed, PTL DEF Spec, KeyedAsRead
=============================================================================
